---- MODULE Spec2Model ----
(***************************************************************************)
(* Storage adapters of sync-storage: the embedded SQL, remote SQL and      *)
(* relational SQL adapters (one read statement followed by one upsert or   *)
(* delete statement) and the key-value adapter (WATCH / GET / MULTI-EXEC   *)
(* on the adapter's single connection).  Strings are sequences of          *)
(* one-character strings; timestamps are integers on one clock.            *)
(***************************************************************************)
EXTENDS Integers, Sequences, FiniteSets, TLC

\* ---------------------------------------------------------------- bounds
MaxTime == 1
MaxVersion == 3
MaxConcVersion == 2
MaxTtl == 1
MaxReadVersion == 1
MaxIsoVersion == 1
MaxLimit == 2
MaxListVersion == 1

\* ------------------------------------------------------- program constants
MaxAttempts == 5

\* null / undefined of an optional number (expiresAt, ifMatchVersion)
Null == -1

Backends == {"sqlite", "turso", "postgres", "redis"}
SqlBackends == {"sqlite", "turso", "postgres"}

\* two callers of one adapter instance
Calls == {1, 2}

\* ---------------------------------------------------------------- strings
ScopeA == [tenantId |-> <<"t">>, namespace |-> <<"n">>, userId |-> <<"a">>]
ScopeB == [tenantId |-> <<"t">>, namespace |-> <<"n">>, userId |-> <<"a", ":", "k", ":", "a">>]
ScopeStar == [tenantId |-> <<"t">>, namespace |-> <<"n">>, userId |-> <<"*">>]
NoScope == [tenantId |-> <<>>, namespace |-> <<>>, userId |-> <<>>]

\* the longest key a service constructed without options accepts
maxKeyLength == 255

KeyA == <<"a">>
KeyB == <<"b">>
KeyAKB == <<"a", ":", "k", ":", "b">>
KeyUpperB == <<"B">>
KeyProto == <<"_", "_", "p", "r", "o", "t", "o", "_", "_">>

AllScopes == {ScopeA, ScopeB, ScopeStar}
\* a key of exactly maxKeyLength characters
FullKey == [i \in 1..maxKeyLength |-> "a"]
AllKeys == {KeyA, KeyB, KeyAKB, KeyUpperB, KeyProto, FullKey}

\* JavaScript values handed to put; "NaN" stands for a number JSON cannot carry
JsValues == {"1", "NaN"}

\* the characters of the strings above
Alphabet == <<"*", ":", "B", "_", "a", "b", "k", "n", "o", "p", "r", "t", "u">>

\* UTF-16 code unit (these characters are ASCII: also the UTF-8 byte)
CharCode(ch) == CASE ch = "*" -> 42 [] ch = ":" -> 58 [] ch = "B" -> 66 [] ch = "_" -> 95
                  [] ch = "a" -> 97 [] ch = "b" -> 98 [] ch = "k" -> 107 [] ch = "n" -> 110
                  [] ch = "o" -> 111 [] ch = "p" -> 112 [] ch = "r" -> 114 [] ch = "t" -> 116
                  [] ch = "u" -> 117

CharOf(code) == CHOOSE ch \in {Alphabet[i] : i \in 1..Len(Alphabet)} : CharCode(ch) = code

\* primary collation weight of String.prototype.localeCompare (root locale):
\* punctuation before letters, '_' before ':' before '*', a letter's two cases alike
LocaleRank(ch) == CASE ch = "_" -> 0 [] ch = ":" -> 1 [] ch = "*" -> 2 [] ch = "a" -> 3
                    [] ch \in {"b", "B"} -> 4 [] ch = "k" -> 5 [] ch = "n" -> 6 [] ch = "o" -> 7
                    [] ch = "p" -> 8 [] ch = "r" -> 9 [] ch = "t" -> 10 [] ch = "u" -> 11

\* tertiary weight: lower case before upper case
LocaleCase(ch) == IF ch = "B" THEN 1 ELSE 0

\* ASCII case folding of LIKE in SQLite
Fold(str) == [i \in 1..Len(str) |-> IF str[i] = "B" THEN "b" ELSE str[i]]

CodeUnits(str) == [i \in 1..Len(str) |-> CharCode(str[i])]
LocaleRanks(str) == [i \in 1..Len(str) |-> LocaleRank(str[i])]
LocaleCases(str) == [i \in 1..Len(str) |-> LocaleCase(str[i])]

\* lexicographic order of two sequences of numbers
LexLess(x, y) ==
    \E i \in 1..(Len(x) + 1) :
        /\ \A j \in 1..(i - 1) : j <= Len(y) /\ x[j] = y[j]
        /\ IF i = Len(x) + 1 THEN Len(y) >= i ELSE i <= Len(y) /\ x[i] < y[i]

\* key > cursorKey of SQL (binary collation) and key <= cursorKey of JavaScript
StrLess(a, b) == LexLess(CodeUnits(a), CodeUnits(b))

\* left.key.localeCompare(right.key) < 0
LocaleLess(a, b) ==
    \/ LexLess(LocaleRanks(a), LocaleRanks(b))
    \/ (LocaleRanks(a) = LocaleRanks(b) /\ LexLess(LocaleCases(a), LocaleCases(b)))

\* ---------------------------------------------------------------- utils.ts
isExpiredStrictlyBefore(expiresAt, t) == expiresAt # Null /\ expiresAt < t

isExpired(expiresAt, t) == expiresAt # Null /\ expiresAt <= t

serializeJson(value) == IF value = "NaN" THEN "null" ELSE value

parseJson(valueJson) == valueJson

Digit(d) == <<"0", "1", "2", "3", "4", "5", "6", "7", "8", "9">>[d + 1]

RECURSIVE Decimal(_)
Decimal(n) == IF n < 10 THEN <<Digit(n)>> ELSE Decimal(n \div 10) \o <<Digit(n % 10)>>

etagWithoutQuotes(version) == Decimal(version)

etagFromVersion(version) == <<"\"">> \o Decimal(version) \o <<"\"">>

\* JavaScript numbers and undefined, as the service receives them
Undefined == [kind |-> "undefined"]
NaN == [kind |-> "NaN"]
Infinity == [kind |-> "Infinity"]
JsNum(n) == [kind |-> "number", n |-> n]
\* n + 1/2 for n >= 0
JsHalf(n) == [kind |-> "number", n |-> n, half |-> TRUE]

IsInteger(x) == x.kind = "number" /\ "half" \notin DOMAIN x
IsFinite(x) == x.kind = "number"
\* !x of a number or undefined: undefined, NaN and 0 are falsy
Falsy(x) == x.kind \in {"undefined", "NaN"} \/ (IsInteger(x) /\ x.n = 0)
Trunc(x) == x.n
Max(a, b) == IF a >= b THEN a ELSE b
Min(a, b) == IF a <= b THEN a ELSE b

clampLimit(limit, max, fallback) ==
    IF Falsy(limit) \/ ~IsFinite(limit) THEN fallback
    ELSE Min(Max(1, Trunc(limit)), max)

IsSpace(ch) == ch = " "
IsDigit(ch) == ch \in {"0", "1", "2", "3", "4", "5", "6", "7", "8", "9"}
DigitValue(ch) == CHOOSE d \in 0..9 : Digit(d) = ch

\* String.prototype.trim
RECURSIVE TrimStart(_)
TrimStart(str) == IF str # <<>> /\ IsSpace(Head(str)) THEN TrimStart(Tail(str)) ELSE str

RECURSIVE TrimEnd(_)
TrimEnd(str) == IF str # <<>> /\ IsSpace(str[Len(str)])
                THEN TrimEnd(SubSeq(str, 1, Len(str) - 1)) ELSE str

Trim(str) == TrimEnd(TrimStart(str))

\* the longest prefix of decimal digits
RECURSIVE LeadingDigits(_)
LeadingDigits(str) == IF str # <<>> /\ IsDigit(Head(str))
                      THEN <<Head(str)>> \o LeadingDigits(Tail(str)) ELSE <<>>

RECURSIVE DigitsValue(_)
DigitsValue(digits) == IF digits = <<>> THEN 0
                       ELSE 10 * DigitsValue(SubSeq(digits, 1, Len(digits) - 1))
                            + DigitValue(digits[Len(digits)])

\* Number.parseInt(str, 10): leading white space, an optional sign, then the
\* longest run of digits; whatever follows is ignored; NaN without a digit
ParseInt(str) ==
    LET body == TrimStart(str)
        signed == body # <<>> /\ Head(body) \in {"-", "+"}
        digits == LeadingDigits(IF signed THEN Tail(body) ELSE body)
    IN IF digits = <<>> THEN NaN
       ELSE JsNum(IF signed /\ Head(body) = "-" THEN 0 - DigitsValue(digits)
                  ELSE DigitsValue(digits))

QuotesKept(trimmed) == trimmed

\* trimmed.startsWith('"') && trimmed.endsWith('"') ? trimmed.slice(1, -1) : trimmed
WithoutQuotes(trimmed) ==
    IF trimmed # <<>> /\ Head(trimmed) = "\"" /\ trimmed[Len(trimmed)] = "\""
    THEN SubSeq(trimmed, 2, Len(trimmed) - 1) ELSE trimmed

normalizeIfMatch(ifMatch) ==
    IF ifMatch = <<>> THEN Null
    ELSE LET parsed == ParseInt(WithoutQuotes(Trim(ifMatch)))
         IN IF parsed.kind # "number" \/ parsed.n <= 0 THEN Null ELSE parsed.n

\* base64url without padding; a cursor is the sequence of its 6-bit digits
RECURSIVE Sextets(_)
Sextets(bytes) ==
    IF Len(bytes) = 0 THEN <<>>
    ELSE IF Len(bytes) = 1
         THEN <<bytes[1] \div 4, (bytes[1] % 4) * 16>>
    ELSE IF Len(bytes) = 2
         THEN <<bytes[1] \div 4, (bytes[1] % 4) * 16 + bytes[2] \div 16, (bytes[2] % 16) * 4>>
    ELSE <<bytes[1] \div 4, (bytes[1] % 4) * 16 + bytes[2] \div 16,
           (bytes[2] % 16) * 4 + bytes[3] \div 64, bytes[3] % 64>>
            \o Sextets(SubSeq(bytes, 4, Len(bytes)))

RECURSIVE Octets(_)
Octets(digits) ==
    IF Len(digits) < 2 THEN <<>>
    ELSE IF Len(digits) = 2
         THEN <<digits[1] * 4 + digits[2] \div 16>>
    ELSE IF Len(digits) = 3
         THEN <<digits[1] * 4 + digits[2] \div 16, (digits[2] % 16) * 16 + digits[3] \div 4>>
    ELSE <<digits[1] * 4 + digits[2] \div 16, (digits[2] % 16) * 16 + digits[3] \div 4,
           (digits[3] % 4) * 64 + digits[4]>>
            \o Octets(SubSeq(digits, 5, Len(digits)))

NoCursor == <<>>

encodeCursor(key) == Sextets(CodeUnits(key))

\* null (the empty string here) when no cursor is given
decodeCursor(cursor) ==
    IF cursor = NoCursor THEN <<>>
    ELSE [i \in 1..Len(Octets(cursor)) |-> CharOf(Octets(cursor)[i])]

\* ------------------------------------------------------------ rows, items
\* a row of the items table, or the envelope of a record of the key-value store
\* together with the time at which the store itself drops the record (SET ... EX)
NoRow == [valueJson |-> "", version |-> 0, createdAt |-> Null, updatedAt |-> Null,
          expiresAt |-> Null, dropAt |-> Null]

NoItem == [key |-> <<>>, value |-> "", version |-> 0, etag |-> <<>>, createdAt |-> Null,
           updatedAt |-> Null, expiresAt |-> Null]

toStoredItem(key, row) ==
    [key |-> key, value |-> parseJson(row.valueJson), version |-> row.version,
     etag |-> etagFromVersion(row.version), createdAt |-> row.createdAt,
     updatedAt |-> row.updatedAt, expiresAt |-> row.expiresAt]

\* ------------------------------------------------------------ primary keys
toScopePrefix(scope) ==
    <<"t", ":">> \o scope.tenantId \o <<":", "n", ":">> \o scope.namespace
        \o <<":", "u", ":">> \o scope.userId \o <<":", "k", ":">>

toRedisKey(scope, key) == toScopePrefix(scope) \o key

SqlPrimaryKey(scope, key) == <<scope.tenantId, scope.namespace, scope.userId, key>>

PhysKey(b, scope, key) ==
    IF b = "redis" THEN toRedisKey(scope, key) ELSE SqlPrimaryKey(scope, key)

PhysKeys(b) == {PhysKey(b, s, k) : s \in AllScopes, k \in AllKeys}

\* redisKey.indexOf(':k:'), 0 when absent
MarkerIndex(redisKey) ==
    LET hits == {i \in 1..(Len(redisKey) - 2) : SubSeq(redisKey, i, i + 2) = <<":", "k", ":">>}
    IN IF hits = {} THEN 0 ELSE CHOOSE i \in hits : \A j \in hits : i <= j

\* null (the empty string here) when the marker is absent
fromRedisKey(redisKey) ==
    IF MarkerIndex(redisKey) = 0 THEN <<>>
    ELSE SubSeq(redisKey, MarkerIndex(redisKey) + 3, Len(redisKey))

\* SCAN ... MATCH pattern: glob with * and ? (the strings here hold no [ and no \)
RECURSIVE GlobMatch(_, _)
GlobMatch(pattern, str) ==
    IF pattern = <<>> THEN str = <<>>
    ELSE IF Head(pattern) = "*"
         THEN GlobMatch(Tail(pattern), str) \/ (str # <<>> /\ GlobMatch(pattern, Tail(str)))
    ELSE IF Head(pattern) = "?"
         THEN str # <<>> /\ GlobMatch(Tail(pattern), Tail(str))
    ELSE str # <<>> /\ Head(str) = Head(pattern) /\ GlobMatch(Tail(pattern), Tail(str))

\* key LIKE pattern with % and _, case-sensitive as in PostgreSQL (the strings
\* here hold no \)
RECURSIVE LikeMatch(_, _)
LikeMatch(pattern, str) ==
    IF pattern = <<>> THEN str = <<>>
    ELSE IF Head(pattern) = "%"
         THEN LikeMatch(Tail(pattern), str) \/ (str # <<>> /\ LikeMatch(pattern, Tail(str)))
    ELSE IF Head(pattern) = "_"
         THEN str # <<>> /\ LikeMatch(Tail(pattern), Tail(str))
    ELSE str # <<>> /\ Head(str) = Head(pattern) /\ LikeMatch(Tail(pattern), Tail(str))

\* like(key, pattern): SQLite and libSQL fold ASCII case, PostgreSQL does not
SqlLike(b, pattern, str) ==
    IF b = "postgres" THEN LikeMatch(pattern, str) ELSE LikeMatch(Fold(pattern), Fold(str))

\* ORDER BY key ASC
RECURSIVE OrderByKey(_)
OrderByKey(keys) ==
    IF keys = {} THEN <<>>
    ELSE LET first == CHOOSE k \in keys : \A other \in keys \ {k} : StrLess(k, other)
         IN <<first>> \o OrderByKey(keys \ {first})

\* Array.prototype.sort with localeCompare on the keys (stable)
RECURSIVE Inserted(_, _)
Inserted(sorted, entry) ==
    IF sorted = <<>> THEN <<entry>>
    ELSE IF LocaleLess(entry.key, Head(sorted).key) THEN <<entry>> \o sorted
    ELSE <<Head(sorted)>> \o Inserted(Tail(sorted), entry)

RECURSIVE SortByLocale(_)
SortByLocale(found) ==
    IF found = <<>> THEN <<>>
    ELSE Inserted(SortByLocale(SubSeq(found, 1, Len(found) - 1)), found[Len(found)])

Take(seq, n) == SubSeq(seq, 1, IF Len(seq) < n THEN Len(seq) ELSE n)

\* ------------------------------------------------------------------ state
VARIABLES backend, clock, store, calls, watched, dirty, lastVer, conn

vars == <<backend, clock, store, calls, watched, dirty, lastVer, conn>>

\* a call slot: the arguments and locals of the call in flight, then its result.
\* prior / priorExpired / floor remember, for the result, what the call found:
\* the version of the active item it read (0 if none), whether the row it read
\* was expired, and lastVer of its key when it read.
\* ifMatch / ttl / rawLimit are the options a call of the service came with,
\* given the entries a batchPut of the service came with.
\* priorExpiresAt remembers the expiresAt of the row a put or delete read.
\* path / auth are the path and the Authorization header of a request.
\* entries / index are the entries of a batchPut and the position of the one
\* its loop is at (0 outside batchPut); applied remembers the positions of the
\* entries whose put has written.
Idle == [op |-> "none", pc |-> "idle", scope |-> NoScope, key |-> <<>>, value |-> "",
         ttlSeconds |-> 0, ifMatchVersion |-> Null, now |-> Null, current |-> NoRow,
         readAt |-> Null, attempt |-> 0, outcome |-> "none", item |-> NoItem,
         removed |-> FALSE, prior |-> 0, priorExpired |-> FALSE, floor |-> 0,
         keys |-> <<>>, pending |-> <<>>, items |-> <<>>, prefix |-> <<>>,
         cursor |-> NoCursor, limit |-> 0, nextCursor |-> NoCursor,
         afterDelete |-> FALSE, visited |-> <<>>, result |-> <<>>,
         entries |-> <<>>, index |-> 0, applied |-> <<>>,
         ifMatch |-> <<>>, ttl |-> Undefined, rawLimit |-> Undefined, given |-> <<>>,
         priorExpiresAt |-> Null, path |-> "", auth |-> <<>>]

Init ==
    /\ backend \in Backends
    /\ clock = 0
    /\ store = [pk \in PhysKeys(backend) |-> NoRow]
    /\ calls = [c \in Calls |-> Idle]
    /\ watched = {}
    /\ dirty = FALSE
    /\ lastVer = [pk \in PhysKeys(backend) |-> 0]
    /\ conn = "ready"

PkOf(c) == PhysKey(backend, calls[c].scope, calls[c].key)

\* a slot is free for a call of the service or the adapter when nothing is in
\* flight in it, or when a request has passed the middleware and its handler
\* makes the call
Free(c) == calls[c].pc \in {"idle", "done", "route"}

\* the active row a put works from, as every adapter computes it
ActiveCurrent(current, t) == IF current # NoRow /\ ~isExpired(current.expiresAt, t)
                             THEN current ELSE NoRow

\* lastVer of a key: the highest version a put of the key has returned since the
\* last delete or expiry of its item (0 when none); what it becomes on a return
Recorded(last, item) == IF item.expiresAt # Null /\ item.expiresAt <= clock THEN 0
                        ELSE IF item.version > last THEN item.version ELSE last

\* a batchPut whose loop goes on whatever the put of an entry did
ReturnedAndLoopGoesOn(c, outcome, item, removed) ==
    [calls[c] EXCEPT !.pc = IF calls[c].index > 0 THEN "next" ELSE "done",
                     !.outcome = outcome, !.item = item, !.removed = removed,
                     !.current = NoRow, !.readAt = Null, !.attempt = 0,
                     !.applied = IF calls[c].index > 0 /\ outcome = "ok"
                                 THEN Append(calls[c].applied, calls[c].index)
                                 ELSE calls[c].applied]

\* the slot of a call that has returned or raised; inside the loop of batchPut
\* a put that returned hands over to the loop, a put that raised ends the call
Returned(c, outcome, item, removed) ==
    [calls[c] EXCEPT !.pc = IF calls[c].index > 0 /\ outcome = "ok" THEN "next" ELSE "done",
                     !.outcome = outcome, !.item = item, !.removed = removed,
                     !.current = NoRow, !.readAt = Null, !.attempt = 0,
                     !.applied = IF calls[c].index > 0 /\ outcome = "ok"
                                 THEN Append(calls[c].applied, calls[c].index)
                                 ELSE calls[c].applied]

\* the last write call to (scope, key) made through slot c before the call that
\* begins now was a delete that returned
AfterDelete(c, scope, key) ==
    /\ calls[c].scope = scope /\ calls[c].key = key
    /\ calls[c].pc = "done" /\ calls[c].outcome = "ok"
    /\ (calls[c].op = "delete" \/ (calls[c].op = "get" /\ calls[c].afterDelete))

\* ------------------------------------------------------------------- put
PutCall(c, scope, key, value, ttlSeconds, ifMatchVersion) ==
    [Idle EXCEPT !.op = "put", !.scope = scope, !.key = key, !.value = value,
                 !.ttlSeconds = ttlSeconds, !.ifMatchVersion = ifMatchVersion,
                 !.now = clock, !.afterDelete = AfterDelete(c, scope, key),
                 !.pc = IF backend = "redis" THEN "watch" ELSE "read"]

PutBegin(c, scope, key, value, ttlSeconds, ifMatchVersion) ==
    /\ Free(c)
    /\ calls' = [calls EXCEPT ![c] = PutCall(c, scope, key, value, ttlSeconds, ifMatchVersion)]
    /\ UNCHANGED <<conn, backend, clock, store, watched, dirty, lastVer>>

PutFailsOnlyOnActive(c, current) ==
    /\ calls[c].ifMatchVersion # Null
    /\ ActiveCurrent(current, clock) # NoRow
    /\ ActiveCurrent(current, clock).version # calls[c].ifMatchVersion

PutFails(c, current) ==
    /\ calls[c].ifMatchVersion # Null
    /\ ActiveCurrent(current, clock).version # calls[c].ifMatchVersion

\* the slot after the read of a put or delete
Read(c, current, pc) ==
    [calls[c] EXCEPT !.current = current, !.readAt = clock, !.pc = pc,
                     !.prior = IF current.expiresAt = Null \/ current.expiresAt > clock
                               THEN current.version ELSE 0,
                     !.priorExpired = (current.expiresAt # Null /\ current.expiresAt <= clock),
                     !.priorExpiresAt = current.expiresAt]

SqlPutRead(c) ==
    /\ backend \in SqlBackends
    /\ calls[c].op = "put" /\ calls[c].pc = "read"
    /\ LET current == store[PkOf(c)]
       IN calls' = [calls EXCEPT ![c] =
                       IF PutFails(c, current)
                       THEN [Read(c, current, "done") EXCEPT !.outcome = "precondition",
                                                             !.current = NoRow, !.readAt = Null]
                       ELSE Read(c, current, "write")]
    /\ UNCHANGED <<conn, backend, clock, store, watched, dirty, lastVer>>

PutVersionNoIncrement(c) ==
    LET active == ActiveCurrent(calls[c].current, calls[c].readAt)
    IN IF active # NoRow THEN active.version ELSE 1

PutVersionOfAnyRow(c) == calls[c].current.version + 1

PutVersion(c) == LET active == ActiveCurrent(calls[c].current, calls[c].readAt)
                 IN IF active # NoRow THEN active.version + 1 ELSE 1

\* a put that leaves the expiry of the row alone when it comes without a TTL
PutExpiresAtKept(c) == IF calls[c].ttlSeconds # 0 THEN calls[c].now + calls[c].ttlSeconds
                       ELSE calls[c].current.expiresAt

PutExpiresAt(c) == IF calls[c].ttlSeconds # 0 THEN calls[c].now + calls[c].ttlSeconds ELSE Null

PutCreatedAt(c) == LET active == ActiveCurrent(calls[c].current, calls[c].readAt)
                   IN IF active # NoRow THEN active.createdAt ELSE calls[c].now

UpsertKeepsValue(existing, c) ==
    [valueJson |-> IF existing # NoRow THEN existing.valueJson
                   ELSE serializeJson(calls[c].value),
     version |-> PutVersion(c), expiresAt |-> PutExpiresAt(c),
     createdAt |-> IF existing # NoRow THEN existing.createdAt ELSE PutCreatedAt(c),
     updatedAt |-> calls[c].now, dropAt |-> Null]

\* INSERT ... ON CONFLICT DO UPDATE SET value_json, version, expires_at, updated_at
Upsert(existing, c) ==
    [valueJson |-> serializeJson(calls[c].value), version |-> PutVersion(c),
     expiresAt |-> PutExpiresAt(c),
     createdAt |-> IF existing # NoRow THEN existing.createdAt ELSE PutCreatedAt(c),
     updatedAt |-> calls[c].now, dropAt |-> Null]

SqlPutResult(c) ==
    [key |-> calls[c].key, value |-> calls[c].value, version |-> PutVersion(c),
     etag |-> etagFromVersion(PutVersion(c)), createdAt |-> PutCreatedAt(c),
     updatedAt |-> calls[c].now, expiresAt |-> PutExpiresAt(c)]

SqlPutWrite(c) ==
    /\ backend \in SqlBackends
    /\ calls[c].op = "put" /\ calls[c].pc = "write"
    /\ store' = [store EXCEPT ![PkOf(c)] = Upsert(store[PkOf(c)], c)]
    /\ calls' = [calls EXCEPT ![c] = Returned(c, "ok", SqlPutResult(c), FALSE)]
    /\ lastVer' = [lastVer EXCEPT ![PkOf(c)] = Recorded(lastVer[PkOf(c)], SqlPutResult(c))]
    /\ UNCHANGED <<conn, backend, clock, watched, dirty>>

\* the envelope the key-value adapter queues, and the EX the SET carries
Envelope(c) ==
    [valueJson |-> serializeJson(calls[c].value), version |-> PutVersion(c),
     createdAt |-> PutCreatedAt(c), updatedAt |-> calls[c].now,
     expiresAt |-> PutExpiresAt(c),
     dropAt |-> IF calls[c].ttlSeconds # 0 THEN clock + calls[c].ttlSeconds ELSE Null]

\* ------------------------------------------- key-value connection: WATCH
RedisWatch(c) ==
    /\ backend = "redis"
    /\ calls[c].op \in {"put", "delete"} /\ calls[c].pc = "watch"
    /\ watched' = watched \cup {PkOf(c)}
    /\ calls' = [calls EXCEPT ![c].pc = "read"]
    /\ UNCHANGED <<conn, backend, clock, store, dirty, lastVer>>

RedisPutRead(c) ==
    /\ backend = "redis"
    /\ calls[c].op = "put" /\ calls[c].pc = "read"
    /\ LET current == store[PkOf(c)]
       IN calls' = [calls EXCEPT ![c] =
                       IF PutFails(c, current)
                       THEN [Read(c, current, "unwatch") EXCEPT !.outcome = "precondition"]
                       ELSE Read(c, current, "exec")]
    /\ UNCHANGED <<conn, backend, clock, store, watched, dirty, lastVer>>

\* UNWATCH forgets every key watched on the connection
RedisUnwatch(c) ==
    /\ backend = "redis"
    /\ calls[c].op \in {"put", "delete"} /\ calls[c].pc = "unwatch"
    /\ watched' = {}
    /\ dirty' = FALSE
    /\ calls' = [calls EXCEPT ![c] = Returned(c, calls[c].outcome, NoItem, FALSE)]
    /\ UNCHANGED <<conn, backend, clock, store, lastVer>>

\* a loop that makes one more attempt
RetryOnceMore(c) == IF calls[c].attempt < MaxAttempts
                    THEN [calls[c] EXCEPT !.attempt = calls[c].attempt + 1, !.pc = "watch"]
                    ELSE Returned(c, "precondition", NoItem, FALSE)

\* what a call does after EXEC answered null
Retry(c) == IF calls[c].attempt + 1 < MaxAttempts
            THEN [calls[c] EXCEPT !.attempt = calls[c].attempt + 1, !.pc = "watch"]
            ELSE Returned(c, "precondition", NoItem, FALSE)

\* MULTI / SET / EXEC: aborted when a key watched on the connection was touched
RedisPutExec(c) ==
    /\ backend = "redis"
    /\ calls[c].op = "put" /\ calls[c].pc = "exec"
    /\ watched' = {}
    /\ dirty' = FALSE
    /\ IF dirty
       THEN /\ calls' = [calls EXCEPT ![c] = Retry(c)]
            /\ UNCHANGED <<store, lastVer>>
       ELSE /\ store' = [store EXCEPT ![PkOf(c)] = Envelope(c)]
            /\ calls' = [calls EXCEPT ![c] =
                            Returned(c, "ok", toStoredItem(calls[c].key, Envelope(c)), FALSE)]
            /\ lastVer' = [lastVer EXCEPT ![PkOf(c)] =
                              Recorded(lastVer[PkOf(c)],
                                       toStoredItem(calls[c].key, Envelope(c)))]
    /\ UNCHANGED <<conn, backend, clock>>

\* -------------------------------------------------------------- batchPut
AssignOwn(result, key, item) ==
    [k \in DOMAIN result \cup {key} |-> IF k = key THEN item ELSE result[k]]

\* the assignment that keeps the item a key already has
AssignFirst(result, key, item) ==
    IF key = KeyProto \/ key \in DOMAIN result THEN result ELSE AssignOwn(result, key, item)

\* result[key] = item on the object literal {}: an assignment to '__proto__'
\* sets the prototype of the object and adds no property
Assign(result, key, item) ==
    IF key = KeyProto THEN result ELSE AssignOwn(result, key, item)

\* the slot when the loop of batchPut calls put for entries[index]
EntryPut(scope, entries, index, result, applied) ==
    [Idle EXCEPT !.op = "put", !.scope = scope, !.key = entries[index].key,
                 !.value = entries[index].value, !.ttlSeconds = entries[index].ttlSeconds,
                 !.ifMatchVersion = entries[index].ifMatchVersion, !.now = clock,
                 !.pc = IF backend = "redis" THEN "watch" ELSE "read",
                 !.entries = entries, !.index = index, !.result = result,
                 !.applied = applied]

BatchPutBegin(c, scope, entries) ==
    /\ Free(c)
    /\ calls' = [calls EXCEPT ![c] = EntryPut(scope, entries, 1, <<>>, <<>>)]
    /\ UNCHANGED <<conn, backend, clock, store, watched, dirty, lastVer>>

\* result[entry.key] = the item put returned, then the next entry or the return
BatchPutNext(c) ==
    /\ calls[c].op = "put" /\ calls[c].pc = "next"
    /\ LET result == Assign(calls[c].result, calls[c].key, calls[c].item)
       IN calls' = [calls EXCEPT ![c] =
                       IF calls[c].index < Len(calls[c].entries)
                       THEN EntryPut(calls[c].scope, calls[c].entries, calls[c].index + 1,
                                     result, calls[c].applied)
                       ELSE [calls[c] EXCEPT !.pc = "done", !.result = result]]
    /\ UNCHANGED <<conn, backend, clock, store, watched, dirty, lastVer>>

\* ------------------------------------------------------------------- get
GetBegun(scope, key) ==
    [Idle EXCEPT !.op = "get", !.scope = scope, !.key = key, !.now = clock,
                 !.floor = lastVer[PhysKey(backend, scope, key)]]

\* SELECT ... WHERE expires_at IS NULL OR expires_at > now
SqlGet(c, scope, key) ==
    /\ backend \in SqlBackends
    /\ Free(c)
    /\ LET row == ActiveCurrent(store[PhysKey(backend, scope, key)], clock)
       IN calls' = [calls EXCEPT ![c] =
                       [GetBegun(scope, key) EXCEPT
                           !.pc = "done", !.outcome = "ok",
                           !.afterDelete = AfterDelete(c, scope, key),
                           !.item = IF row = NoRow THEN NoItem ELSE toStoredItem(key, row)]]
    /\ UNCHANGED <<conn, backend, clock, store, watched, dirty, lastVer>>

RedisGet(c, scope, key) ==
    /\ backend = "redis"
    /\ Free(c)
    /\ LET raw == store[PhysKey(backend, scope, key)]
       IN calls' = [calls EXCEPT ![c] =
                       [GetBegun(scope, key) EXCEPT
                           !.outcome = "ok", !.afterDelete = AfterDelete(c, scope, key),
                           !.pc = IF raw # NoRow /\ isExpired(raw.expiresAt, clock)
                                  THEN "del" ELSE "done",
                           !.item = IF raw = NoRow \/ isExpired(raw.expiresAt, clock)
                                    THEN NoItem ELSE toStoredItem(key, raw)]]
    /\ UNCHANGED <<conn, backend, clock, store, watched, dirty, lastVer>>

\* DEL of the record the get found expired
RedisGetDel(c) ==
    /\ backend = "redis"
    /\ calls[c].op = "get" /\ calls[c].pc = "del"
    /\ store' = [store EXCEPT ![PkOf(c)] = NoRow]
    /\ dirty' = (dirty \/ (PkOf(c) \in watched /\ store[PkOf(c)] # NoRow))
    /\ calls' = [calls EXCEPT ![c].pc = "done"]
    /\ UNCHANGED <<conn, backend, clock, watched, lastVer>>

\* -------------------------------------------------------------- batchGet
\* the item a get of the SQL adapters returns at this moment
SqlGetItem(scope, key) ==
    LET row == ActiveCurrent(store[PhysKey(backend, scope, key)], clock)
    IN IF row = NoRow THEN NoItem ELSE toStoredItem(key, row)

\* Promise.all over one get per key: one SELECT per key
SqlBatchGetBegin(c, scope, keys) ==
    /\ backend \in SqlBackends
    /\ Free(c)
    /\ calls' = [calls EXCEPT ![c] =
                    [Idle EXCEPT !.op = "batchGet", !.scope = scope, !.keys = keys,
                                 !.pending = keys, !.now = clock, !.pc = "batch"]]
    /\ UNCHANGED <<conn, backend, clock, store, watched, dirty, lastVer>>

SqlBatchGetStep(c) ==
    /\ backend \in SqlBackends
    /\ calls[c].op = "batchGet" /\ calls[c].pc = "batch"
    /\ calls' = [calls EXCEPT
                    ![c].items = Append(calls[c].items,
                                        SqlGetItem(calls[c].scope, Head(calls[c].pending))),
                    ![c].result = Assign(calls[c].result, Head(calls[c].pending),
                                         SqlGetItem(calls[c].scope, Head(calls[c].pending))),
                    ![c].pending = Tail(calls[c].pending),
                    ![c].pc = IF Len(calls[c].pending) = 1 THEN "done" ELSE "batch",
                    ![c].outcome = IF Len(calls[c].pending) = 1 THEN "ok" ELSE "none"]
    /\ UNCHANGED <<conn, backend, clock, store, watched, dirty, lastVer>>

\* MGET, then the expiry check of every envelope
RedisMGetItem(scope, key) ==
    LET raw == store[PhysKey(backend, scope, key)]
    IN IF raw = NoRow \/ isExpired(raw.expiresAt, clock) THEN NoItem
       ELSE toStoredItem(key, raw)

\* the loop over the keys and the values of MGET
RECURSIVE RedisBatchResult(_, _, _)
RedisBatchResult(scope, keys, n) ==
    IF n = 0 THEN <<>>
    ELSE Assign(RedisBatchResult(scope, keys, n - 1), keys[n], RedisMGetItem(scope, keys[n]))

RedisBatchGet(c, scope, keys) ==
    /\ backend = "redis"
    /\ Free(c)
    /\ calls' = [calls EXCEPT ![c] =
                    [Idle EXCEPT !.op = "batchGet", !.scope = scope, !.keys = keys,
                                 !.now = clock, !.pc = "done", !.outcome = "ok",
                                 !.items = [i \in 1..Len(keys) |->
                                               RedisMGetItem(scope, keys[i])],
                                 !.result = RedisBatchResult(scope, keys, Len(keys))]]
    /\ UNCHANGED <<conn, backend, clock, store, watched, dirty, lastVer>>

\* ------------------------------------------------------------------ list
ListBegun(scope, prefix, cursor, limit) ==
    [Idle EXCEPT !.op = "list", !.scope = scope, !.prefix = prefix, !.cursor = cursor,
                 !.limit = limit, !.now = clock]

KeysOf(items) == [i \in 1..Len(items) |-> items[i].key]

\* the keys of the earlier pages when the list that begins now continues the
\* paging of the list before it in slot c (same scope, prefix and limit, cursor =
\* the nextCursor returned), none otherwise
Visited(c, scope, prefix, cursor, limit) ==
    IF /\ calls[c].op = "list" /\ calls[c].pc = "done" /\ calls[c].outcome = "ok"
       /\ calls[c].scope = scope /\ calls[c].prefix = prefix /\ calls[c].limit = limit
       /\ cursor # NoCursor /\ cursor = calls[c].nextCursor
    THEN calls[c].visited \o KeysOf(calls[c].items)
    ELSE <<>>

\* the keys of the rows the SELECT of list matches
SqlListKeys(scope, prefix, cursorKey) ==
    {pk[4] : pk \in {p \in DOMAIN store :
                        /\ p[1] = scope.tenantId /\ p[2] = scope.namespace
                        /\ p[3] = scope.userId
                        /\ store[p] # NoRow /\ ~isExpired(store[p].expiresAt, clock)
                        /\ (prefix # <<>> => SqlLike(backend, prefix \o <<"%">>, p[4]))
                        /\ (cursorKey # <<>> => StrLess(cursorKey, p[4]))}}

\* ... ORDER BY key ASC LIMIT limit + 1
SqlListRows(scope, prefix, cursorKey, limit) ==
    Take(OrderByKey(SqlListKeys(scope, prefix, cursorKey)), limit + 1)

\* the slot when list of the SQL adapters has returned
SqlListed(c, scope, prefix, cursor, limit) ==
    LET rows == SqlListRows(scope, prefix, decodeCursor(cursor), limit)
        page == Take(rows, limit)
    IN [ListBegun(scope, prefix, cursor, limit) EXCEPT
           !.pc = "done", !.outcome = "ok",
           !.visited = Visited(c, scope, prefix, cursor, limit),
           !.items = [i \in 1..Len(page) |->
                         toStoredItem(page[i], store[PhysKey(backend, scope, page[i])])],
           !.nextCursor = IF Len(rows) > limit /\ Len(page) > 0
                          THEN encodeCursor(page[Len(page)]) ELSE NoCursor]

SqlList(c, scope, prefix, cursor, limit) ==
    /\ backend \in SqlBackends
    /\ Free(c)
    /\ calls' = [calls EXCEPT ![c] = SqlListed(c, scope, prefix, cursor, limit)]
    /\ UNCHANGED <<conn, backend, clock, store, watched, dirty, lastVer>>

\* the keys SCAN yields for MATCH pattern
ScanKeys(pattern) ==
    OrderByKey({rk \in DOMAIN store : store[rk] # NoRow /\ GlobMatch(pattern, rk)})

\* found.sort(...), slice, nextCursor
RedisListResult(c, found) ==
    LET sorted == SortByLocale(found)
        page == Take(sorted, calls[c].limit)
    IN [calls[c] EXCEPT
           !.pc = "done", !.outcome = "ok", !.pending = <<>>,
           !.items = [i \in 1..Len(page) |-> page[i]],
           !.nextCursor = IF Len(sorted) > calls[c].limit /\ Len(page) > 0
                          THEN encodeCursor(page[Len(page)].key) ELSE NoCursor]

\* the slot when list of the key-value adapter has the keys of its SCAN
RedisListScanned(c, scope, prefix, cursor, limit) ==
    LET keys == ScanKeys(toScopePrefix(scope) \o prefix \o <<"*">>)
    IN IF keys = <<>>
       THEN [ListBegun(scope, prefix, cursor, limit) EXCEPT
                !.pc = "done", !.outcome = "ok",
                !.visited = Visited(c, scope, prefix, cursor, limit)]
       ELSE [ListBegun(scope, prefix, cursor, limit) EXCEPT
                !.pc = "fetch", !.pending = keys,
                !.visited = Visited(c, scope, prefix, cursor, limit)]

RedisListScan(c, scope, prefix, cursor, limit) ==
    /\ backend = "redis"
    /\ Free(c)
    /\ calls' = [calls EXCEPT ![c] = RedisListScanned(c, scope, prefix, cursor, limit)]
    /\ UNCHANGED <<conn, backend, clock, store, watched, dirty, lastVer>>

\* one turn of the loop over the scanned keys: fromRedisKey, cursor test, GET
RedisListFound(c, redisKey) ==
    LET key == fromRedisKey(redisKey)
        cursorKey == decodeCursor(calls[c].cursor)
        raw == store[redisKey]
    IN IF \/ key = <<>>
          \/ (cursorKey # <<>> /\ ~StrLess(cursorKey, key))
          \/ raw = NoRow
          \/ isExpired(raw.expiresAt, clock)
       THEN calls[c].items
       ELSE Append(calls[c].items, toStoredItem(key, raw))

RedisListFetch(c) ==
    /\ backend = "redis"
    /\ calls[c].op = "list" /\ calls[c].pc = "fetch"
    /\ LET found == RedisListFound(c, Head(calls[c].pending))
       IN calls' = [calls EXCEPT ![c] =
                       IF Len(calls[c].pending) = 1
                       THEN RedisListResult(c, found)
                       ELSE [calls[c] EXCEPT !.items = found,
                                             !.pending = Tail(calls[c].pending)]]
    /\ UNCHANGED <<conn, backend, clock, store, watched, dirty, lastVer>>

\* ---------------------------------------------------------------- delete
DeleteCall(scope, key, ifMatchVersion) ==
    [Idle EXCEPT !.op = "delete", !.scope = scope, !.key = key,
                 !.ifMatchVersion = ifMatchVersion, !.now = clock,
                 !.pc = IF backend = "redis" THEN "watch" ELSE "read"]

DeleteBegin(c, scope, key, ifMatchVersion) ==
    /\ Free(c)
    /\ calls' = [calls EXCEPT ![c] = DeleteCall(scope, key, ifMatchVersion)]
    /\ UNCHANGED <<conn, backend, clock, store, watched, dirty, lastVer>>

DeleteFailsOnlyOnExpired(c, current) ==
    calls[c].ifMatchVersion # Null /\ isExpired(current.expiresAt, clock)

DeleteFails(c, current) ==
    /\ calls[c].ifMatchVersion # Null
    /\ (isExpired(current.expiresAt, clock) \/ current.version # calls[c].ifMatchVersion)

DeleteOutcome(c, current) ==
    IF current = NoRow THEN "ok" ELSE IF DeleteFails(c, current) THEN "precondition" ELSE "none"

\* return !isExpired(current.expiresAt)
DeleteRemoved(c) == ~isExpired(calls[c].current.expiresAt, clock)

DeletedRowExpires(current) == [current EXCEPT !.expiresAt = 0]

\* the row of the key after the DELETE statement / the DEL command
DeletedRow(current) == NoRow

SqlDeleteRead(c) ==
    /\ backend \in SqlBackends
    /\ calls[c].op = "delete" /\ calls[c].pc = "read"
    /\ LET current == store[PkOf(c)]
       IN calls' = [calls EXCEPT ![c] =
                       IF DeleteOutcome(c, current) = "none"
                       THEN Read(c, current, "write")
                       ELSE [Read(c, current, "done") EXCEPT
                                !.outcome = DeleteOutcome(c, current),
                                !.current = NoRow, !.readAt = Null]]
    /\ UNCHANGED <<conn, backend, clock, store, watched, dirty, lastVer>>

SqlDeleteWrite(c) ==
    /\ backend \in SqlBackends
    /\ calls[c].op = "delete" /\ calls[c].pc = "write"
    /\ store' = [store EXCEPT ![PkOf(c)] = DeletedRow(store[PkOf(c)])]
    /\ lastVer' = [lastVer EXCEPT ![PkOf(c)] = 0]
    /\ calls' = [calls EXCEPT ![c] = Returned(c, "ok", NoItem, DeleteRemoved(c))]
    /\ UNCHANGED <<conn, backend, clock, watched, dirty>>

RedisDeleteRead(c) ==
    /\ backend = "redis"
    /\ calls[c].op = "delete" /\ calls[c].pc = "read"
    /\ LET current == store[PkOf(c)]
       IN calls' = [calls EXCEPT ![c] =
                       IF DeleteOutcome(c, current) = "none"
                       THEN Read(c, current, "exec")
                       ELSE [Read(c, current, "unwatch") EXCEPT
                                !.outcome = DeleteOutcome(c, current)]]
    /\ UNCHANGED <<conn, backend, clock, store, watched, dirty, lastVer>>

\* MULTI / DEL / EXEC
RedisDeleteExec(c) ==
    /\ backend = "redis"
    /\ calls[c].op = "delete" /\ calls[c].pc = "exec"
    /\ watched' = {}
    /\ dirty' = FALSE
    /\ IF dirty
       THEN /\ calls' = [calls EXCEPT ![c] = Retry(c)]
            /\ UNCHANGED <<store, lastVer>>
       ELSE /\ store' = [store EXCEPT ![PkOf(c)] = DeletedRow(store[PkOf(c)])]
            /\ lastVer' = [lastVer EXCEPT ![PkOf(c)] = 0]
            /\ calls' = [calls EXCEPT ![c] = Returned(c, "ok", NoItem, DeleteRemoved(c))]
    /\ UNCHANGED <<conn, backend, clock>>

\* ----------------------------------------------------------------- clock
\* a record of the key-value store whose EX has run out is gone for every command
Dropped(row, t) == row.dropAt # Null /\ row.dropAt <= t

Tick ==
    /\ clock' = clock + 1
    /\ store' = [pk \in DOMAIN store |-> IF Dropped(store[pk], clock + 1) THEN NoRow
                                         ELSE store[pk]]
    /\ dirty' = (dirty \/ \E pk \in watched : Dropped(store[pk], clock + 1))
    /\ lastVer' = [pk \in DOMAIN lastVer |->
                      IF store[pk].expiresAt # Null /\ store[pk].expiresAt <= clock + 1
                      THEN 0 ELSE lastVer[pk]]
    /\ UNCHANGED <<conn, backend, calls, watched>>

\* ------------------------------------------------------ health and close
\* conn is the connection of the adapter to its backend: "connecting" while
\* the ready promise of the key-value adapter is pending, "ready", "failing"
\* while the backend does not answer, "closed" after close
Connect ==
    /\ backend = "redis" /\ conn = "connecting"
    /\ conn' = "ready"
    /\ UNCHANGED <<backend, clock, store, calls, watched, dirty, lastVer>>

ConnectFails ==
    /\ backend = "redis" /\ conn = "connecting"
    /\ conn' = "failing"
    /\ UNCHANGED <<backend, clock, store, calls, watched, dirty, lastVer>>

BackendFails ==
    /\ conn = "ready"
    /\ conn' = "failing"
    /\ UNCHANGED <<backend, clock, store, calls, watched, dirty, lastVer>>

BackendRecovers ==
    /\ conn = "failing"
    /\ conn' = "ready"
    /\ UNCHANGED <<backend, clock, store, calls, watched, dirty, lastVer>>

\* String(error) of what the round trip threw
Cause == IF conn = "closed" THEN "Error: closed" ELSE "Error: backend"

\* a health without the catch
HealthRaises(cause) == [Idle EXCEPT !.op = "health", !.pc = "done", !.outcome = "raised"]

\* catch (error) { return { ok: false, details: String(error) } }
HealthCaught(cause) ==
    [Idle EXCEPT !.op = "health", !.pc = "done", !.outcome = "ok",
                 !.result = [ok |-> FALSE, details |-> cause]]

\* SELECT 1 answered: { ok: true }; PING answered: { ok: pong === 'PONG', details: pong }
HealthAnswered ==
    [Idle EXCEPT !.op = "health", !.pc = "done", !.outcome = "ok",
                 !.result = IF backend = "redis" THEN [ok |-> TRUE, details |-> "PONG"]
                            ELSE [ok |-> TRUE]]

\* health of an adapter; the key-value adapter first awaits its ready promise
Health(c) ==
    /\ Free(c)
    /\ conn # "connecting"
    /\ calls' = [calls EXCEPT ![c] = IF conn = "ready" THEN HealthAnswered
                                     ELSE HealthCaught(Cause)]
    /\ UNCHANGED <<conn, backend, clock, store, watched, dirty, lastVer>>

\* health of the service: return this.adapter.health()
health(c) == Health(c)

\* GET /v1/readyz
ReadyzStatus(call) == IF call.result.ok THEN 200 ELSE 503

\* client.quit() and pool.end() reject on a handle that is closed already;
\* the close of the embedded and remote SQL clients returns
CloseRaises == conn = "closed" /\ backend \in {"redis", "postgres"}

\* close of an adapter: the close of its client, whatever that answers
Close(c) ==
    /\ Free(c)
    /\ conn # "connecting"
    /\ conn' = "closed"
    /\ calls' = [calls EXCEPT ![c] =
                    [Idle EXCEPT !.op = "close", !.pc = "done",
                                 !.outcome = IF CloseRaises THEN "raised" ELSE "ok"]]
    /\ UNCHANGED <<backend, clock, store, watched, dirty, lastVer>>

\* ---------------------------------------------------------------- service
\* the limits of a service constructed without options
maxValueBytes == 1048576
maxBatchSize == 100
maxListLimit == 100

\* a key one character too long, and a string value that serializes to more
\* bytes than maxValueBytes
LongKey == [i \in 1..(maxKeyLength + 1) |-> "a"]
BigValue == "big"
\* string values that serialize to exactly maxValueBytes bytes and to one more
FullValue == "full"
OverValue == "over"

\* Buffer.byteLength(serializeJson(value), 'utf8')
ByteLength(value) == CASE value = BigValue -> maxValueBytes + 2
                       [] value = FullValue -> maxValueBytes
                       [] value = OverValue -> maxValueBytes + 1
                       [] value = "NaN" -> 4
                       [] OTHER -> 1

validateScope(scope) ==
    scope.tenantId # <<>> /\ scope.namespace # <<>> /\ scope.userId # <<>>

\* a check that turns away a key of exactly maxKeyLength characters
validateKeyBelowMax(key) == key # <<>> /\ Len(key) < maxKeyLength

validateKey(key) == key # <<>> /\ Len(key) <= maxKeyLength

validateValue(value) == ByteLength(value) <= maxValueBytes

\* Number.isInteger(ttlSeconds) && ttlSeconds > 0, or undefined
validateTtlSeconds(ttl) == ttl = Undefined \/ (IsInteger(ttl) /\ ttl.n > 0)

\* the ttlSeconds the adapter is handed: 0 stands for undefined
TtlSeconds(ttl) == IF ttl = Undefined THEN 0 ELSE ttl.n

\* validateIfMatch raises when the header is given and does not normalize
IfMatchInvalid(ifMatch) == ifMatch # <<>> /\ normalizeIfMatch(ifMatch) = Null

validateIfMatch(ifMatch) == IF ifMatch = <<>> THEN Null ELSE normalizeIfMatch(ifMatch)

\* the slot of a service call that raised before it reached the adapter
Rejected(op, outcome, scope, key, value, ttl, ifMatch) ==
    [Idle EXCEPT !.op = op, !.pc = "done", !.outcome = outcome, !.scope = scope,
                 !.key = key, !.value = value, !.ttl = ttl, !.ifMatch = ifMatch]

\* the error setItem raises before the adapter call, "none" when it delegates
SetItemError(scope, key, value, ttl, ifMatch) ==
    IF ~validateScope(scope) \/ ~validateKey(key) \/ ~validateValue(value)
       \/ ~validateTtlSeconds(ttl)
    THEN "validation"
    ELSE IF IfMatchInvalid(ifMatch) THEN "precondition" ELSE "none"

setItem(c, scope, key, value, ttl, ifMatch) ==
    /\ Free(c)
    /\ calls' = [calls EXCEPT ![c] =
                    IF SetItemError(scope, key, value, ttl, ifMatch) # "none"
                    THEN Rejected("setItem", SetItemError(scope, key, value, ttl, ifMatch),
                                  scope, key, value, ttl, ifMatch)
                    ELSE [PutCall(c, scope, key, value, TtlSeconds(ttl),
                                  validateIfMatch(ifMatch))
                             EXCEPT !.ttl = ttl, !.ifMatch = ifMatch]]
    /\ UNCHANGED <<conn, backend, clock, store, watched, dirty, lastVer>>

RemoveItemError(scope, key, ifMatch) ==
    IF ~validateScope(scope) \/ ~validateKey(key) THEN "validation"
    ELSE IF IfMatchInvalid(ifMatch) THEN "precondition" ELSE "none"

removeItem(c, scope, key, ifMatch) ==
    /\ Free(c)
    /\ calls' = [calls EXCEPT ![c] =
                    IF RemoveItemError(scope, key, ifMatch) # "none"
                    THEN Rejected("removeItem", RemoveItemError(scope, key, ifMatch),
                                  scope, key, "", Undefined, ifMatch)
                    ELSE [DeleteCall(scope, key, validateIfMatch(ifMatch))
                             EXCEPT !.ifMatch = ifMatch]]
    /\ UNCHANGED <<conn, backend, clock, store, watched, dirty, lastVer>>

\* String(entry.ifMatchVersion) of a number that is not negative
NumberString(n) == Decimal(n)

\* the error the validation of one entry of batchPut raises, "none" when it passes
EntryError(entry) ==
    IF ~validateKey(entry.key) \/ ~validateValue(entry.value)
       \/ ~validateTtlSeconds(entry.ttlSeconds)
    THEN "validation"
    ELSE IF entry.ifMatchVersion # Null /\ IfMatchInvalid(NumberString(entry.ifMatchVersion))
         THEN "precondition" ELSE "none"

\* a loop that looks at the first entry only
EntriesErrorOfFirst(entries) ==
    IF entries = <<>> THEN "none" ELSE EntryError(Head(entries))

\* the loop over the entries raises at the first entry that does not pass
RECURSIVE EntriesError(_)
EntriesError(entries) ==
    IF entries = <<>> THEN "none"
    ELSE IF EntryError(Head(entries)) # "none" THEN EntryError(Head(entries))
         ELSE EntriesError(Tail(entries))

BatchPutError(scope, entries) ==
    IF ~validateScope(scope) \/ entries = <<>> \/ Len(entries) > maxBatchSize
    THEN "validation"
    ELSE EntriesError(entries)

\* the entries as the adapter receives them
AdapterEntries(entries) ==
    [i \in 1..Len(entries) |->
        [entries[i] EXCEPT !.ttlSeconds = TtlSeconds(entries[i].ttlSeconds),
                           !.ifMatchVersion =
                               IF entries[i].ifMatchVersion = Null THEN Null
                               ELSE validateIfMatch(NumberString(entries[i].ifMatchVersion))]]

batchPut(c, scope, entries) ==
    /\ Free(c)
    /\ calls' = [calls EXCEPT ![c] =
                    IF BatchPutError(scope, entries) # "none"
                    THEN [Rejected("batchPut", BatchPutError(scope, entries), scope, <<>>, "",
                                   Undefined, <<>>)
                             EXCEPT !.entries = entries, !.given = entries]
                    ELSE [EntryPut(scope, AdapterEntries(entries), 1, <<>>, <<>>)
                             EXCEPT !.given = entries]]
    /\ UNCHANGED <<conn, backend, clock, store, watched, dirty, lastVer>>

Reject(c, rejected) ==
    /\ Free(c)
    /\ calls' = [calls EXCEPT ![c] = rejected]
    /\ UNCHANGED <<conn, backend, clock, store, watched, dirty, lastVer>>

getItem(c, scope, key) ==
    IF ~validateScope(scope) \/ ~validateKey(key)
    THEN Reject(c, Rejected("getItem", "validation", scope, key, "", Undefined, <<>>))
    ELSE SqlGet(c, scope, key) \/ RedisGet(c, scope, key)

BatchGetValid(scope, keys) ==
    /\ validateScope(scope)
    /\ keys # <<>> /\ Len(keys) <= maxBatchSize
    /\ \A i \in 1..Len(keys) : validateKey(keys[i])

batchGet(c, scope, keys) ==
    IF ~BatchGetValid(scope, keys)
    THEN Reject(c, [Rejected("batchGet", "validation", scope, <<>>, "", Undefined, <<>>)
                       EXCEPT !.keys = keys])
    ELSE SqlBatchGetBegin(c, scope, keys) \/ RedisBatchGet(c, scope, keys)

DefaultLimit == 50

\* list of the service: the adapter is handed the clamped limit
list(c, scope, prefix, cursor, limit) ==
    IF ~validateScope(scope) \/ Len(prefix) > maxKeyLength
    THEN Reject(c, [Rejected("list", "validation", scope, <<>>, "", Undefined, <<>>)
                       EXCEPT !.prefix = prefix, !.rawLimit = limit])
    ELSE /\ Free(c)
         /\ calls' = [calls EXCEPT ![c] =
                         [(IF backend = "redis"
                           THEN RedisListScanned(c, scope, prefix, cursor,
                                                 clampLimit(limit, maxListLimit, DefaultLimit))
                           ELSE SqlListed(c, scope, prefix, cursor,
                                          clampLimit(limit, maxListLimit, DefaultLimit)))
                             EXCEPT !.rawLimit = limit]]
         /\ UNCHANGED <<conn, backend, clock, store, watched, dirty, lastVer>>

\* ----------------------------------------------------------------- routes
\* PUT /v1/items/:key with the If-Match header
RoutePutItem(c, actor, key, value, ifMatch) == setItem(c, actor, key, value, Undefined, ifMatch)

\* DELETE /v1/items/:key with the If-Match header
RouteDeleteItem(c, actor, key, ifMatch) == removeItem(c, actor, key, ifMatch)

\* the status of the response to a request that has been answered
Status(call) ==
    IF call.outcome \in {"validation", "precondition"} THEN 400
    ELSE IF call.op = "delete" THEN (IF call.removed THEN 204 ELSE 404)
    ELSE 200

\* entry.ifMatch ? normalizeIfMatch(entry.ifMatch) : null
ParsedIfMatch(entry) == IF entry.ifMatch # <<>> THEN normalizeIfMatch(entry.ifMatch) ELSE Null

\* the entries the route hands to the service; each keeps the ifMatch it came with
ParsedEntries(body) ==
    [i \in 1..Len(body) |->
        [key |-> body[i].key, value |-> body[i].value, ttlSeconds |-> body[i].ttlSeconds,
         ifMatchVersion |-> ParsedIfMatch(body[i]), ifMatch |-> body[i].ifMatch]]

\* what the mapping of the body raises: entry.key is required, Invalid If-Match
RECURSIVE BodyError(_)
BodyError(body) ==
    IF body = <<>> THEN "none"
    ELSE IF Head(body).key = <<>> THEN "validation"
    ELSE IF Head(body).ifMatch # <<>> /\ ParsedIfMatch(Head(body)) = Null THEN "precondition"
    ELSE BodyError(Tail(body))

\* POST /v1/items:batchPut where an If-Match that does not parse is raised
RouteBatchPut(c, actor, body) ==
    IF BodyError(body) # "none"
    THEN /\ Free(c)
         /\ calls' = [calls EXCEPT ![c] =
                         [Rejected("batchPut", BodyError(body), actor, <<>>, "", Undefined, <<>>)
                             EXCEPT !.entries = body]]
         /\ UNCHANGED <<conn, backend, clock, store, watched, dirty, lastVer>>
    ELSE batchPut(c, actor, ParsedEntries(body))

\* POST /v1/items:batchPut where the body is mapped without a check
RouteBatchPutMapped(c, actor, body) == batchPut(c, actor, ParsedEntries(body))

\* the caller has taken the result of its call: the slot is as new
Release(c) ==
    /\ calls[c].pc = "done"
    /\ calls' = [calls EXCEPT ![c] = Idle]
    /\ UNCHANGED <<conn, backend, clock, store, watched, dirty, lastVer>>

\* a SET or DEL of the key by another client of the key-value server: it
\* touches the key for the WATCH of this connection
ForeignRow == [valueJson |-> serializeJson("1"), version |-> 1, createdAt |-> clock,
               updatedAt |-> clock, expiresAt |-> Null, dropAt |-> Null]

ForeignWrite(pk) ==
    /\ backend = "redis"
    /\ store' = [store EXCEPT ![pk] = IF store[pk] = NoRow THEN ForeignRow ELSE NoRow]
    /\ lastVer' = [lastVer EXCEPT ![pk] = IF store[pk] = NoRow THEN 1 ELSE 0]
    /\ dirty' = (dirty \/ pk \in watched)
    /\ UNCHANGED <<conn, backend, clock, calls, watched>>

\* ------------------------------------------------------------ middleware
\* the token of the configuration (AUTH_TOKEN)
authToken == <<"k">>
BearerWord == <<"B", "e", "a", "r", "e", "r">>

Lower(ch) == CASE ch = "B" -> "b" [] ch = "E" -> "e" [] ch = "A" -> "a" [] ch = "R" -> "r"
               [] OTHER -> ch

\* the string matches /^Bearer\s+/i
HasBearerPrefix(header) ==
    /\ Len(header) >= Len(BearerWord) + 1
    /\ \A i \in 1..Len(BearerWord) : Lower(header[i]) = Lower(BearerWord[i])
    /\ IsSpace(header[Len(BearerWord) + 1])

\* authHeader.replace(/^Bearer\s+/i, '')
StripBearer(header) ==
    IF HasBearerPrefix(header)
    THEN TrimStart(SubSeq(header, Len(BearerWord) + 1, Len(header)))
    ELSE header

\* token === authToken; a request without the header has no token
TokenMatches(header) == header # <<>> /\ StripBearer(header) = authToken

PathHealthz == "/v1/healthz"
PathReadyz == "/v1/readyz"
PathItem == "/v1/items/a"

\* app.use('/v1/*'): the health paths pass, every other path resolves the actor
ActorMiddleware(c, path, header) ==
    /\ calls[c].pc = "idle"
    /\ calls' = [calls EXCEPT ![c] =
                    IF path \in {PathHealthz, PathReadyz} \/ TokenMatches(header)
                    THEN [Idle EXCEPT !.op = "request", !.pc = "route", !.path = path,
                                      !.auth = header]
                    ELSE [Idle EXCEPT !.op = "request", !.pc = "done", !.path = path,
                                      !.auth = header, !.outcome = "unauthorized"]]
    /\ UNCHANGED <<conn, backend, clock, store, watched, dirty, lastVer>>

\* GET /v1/healthz
Healthz(c) ==
    /\ calls[c].pc = "route" /\ calls[c].path = PathHealthz
    /\ calls' = [calls EXCEPT ![c].pc = "done", ![c].outcome = "ok"]
    /\ UNCHANGED <<conn, backend, clock, store, watched, dirty, lastVer>>

\* GET /v1/readyz
Readyz(c) == calls[c].pc = "route" /\ calls[c].path = PathReadyz /\ health(c)

\* GET and PUT /v1/items/:key
ItemHandler(c) ==
    /\ calls[c].pc = "route" /\ calls[c].path = PathItem
    /\ \/ getItem(c, ScopeA, KeyA)
       \/ RoutePutItem(c, ScopeA, KeyA, "1", <<>>)

\* --------------------------------------------------------- error handler
\* the errors of the core, with the status and the code their constructors set;
\* "other" is an error that is no SyncStorageError, "http" an HTTPException
Diagnostic == "connect ECONNREFUSED"
ErrorKinds == {"validation", "unauthorized", "notFound", "precondition", "internal",
               "http", "other"}

ErrorOf(kind) ==
    CASE kind = "validation" ->
           [kind |-> kind, status |-> 400, code |-> "VALIDATION_ERROR", message |-> "invalid"]
      [] kind = "unauthorized" ->
           [kind |-> kind, status |-> 401, code |-> "UNAUTHORIZED", message |-> "unauthorized"]
      [] kind = "notFound" ->
           [kind |-> kind, status |-> 404, code |-> "NOT_FOUND", message |-> "not found"]
      [] kind = "precondition" ->
           [kind |-> kind, status |-> 412, code |-> "PRECONDITION_FAILED",
            message |-> "If-Match"]
      [] kind = "internal" ->
           [kind |-> kind, status |-> 500, code |-> "INTERNAL_ERROR", message |-> "internal"]
      [] kind = "http" ->
           [kind |-> kind, status |-> 400, code |-> "", message |-> "Malformed JSON"]
      [] OTHER ->
           [kind |-> kind, status |-> 0, code |-> "", message |-> Diagnostic]

IsSyncStorageError(error) ==
    error.kind \in {"validation", "unauthorized", "notFound", "precondition", "internal"}

\* handleApiError of http/error-handler.ts: the status comes from the class
handleApiError(error) ==
    IF IsSyncStorageError(error)
    THEN [status |-> IF error.kind \in {"validation", "precondition"} THEN 400
                     ELSE IF error.kind = "unauthorized" THEN 401 ELSE 500,
          code |-> error.code, message |-> error.message]
    ELSE [status |-> 500, code |-> "INTERNAL_SERVER_ERROR",
          message |-> "An unexpected error occurred"]

toStatusCode(status) ==
    IF status >= 200 /\ status <= 599 /\ status \notin {204, 205, 304} THEN status ELSE 500

\* handleApiError of the build that answers with error.status
handleApiErrorByStatus(error) ==
    IF IsSyncStorageError(error)
    THEN [status |-> toStatusCode(error.status), code |-> error.code,
          message |-> error.message]
    ELSE IF error.kind = "http"
    THEN [status |-> toStatusCode(error.status), code |-> "HTTP_ERROR",
          message |-> error.message]
    ELSE [status |-> 500, code |-> "INTERNAL_ERROR",
          message |-> "Unexpected internal server error"]

Handlers == {"byClass", "byStatus"}

\* app.onError: a request whose handling threw is answered by handleApiError
OnError(c, kind, handler) ==
    /\ calls[c].pc = "idle"
    /\ calls' = [calls EXCEPT ![c] =
                    [Idle EXCEPT !.op = "request", !.pc = "done", !.outcome = kind,
                                 !.path = handler,
                                 !.result = IF handler = "byClass"
                                            THEN handleApiError(ErrorOf(kind))
                                            ELSE handleApiErrorByStatus(ErrorOf(kind))]]
    /\ UNCHANGED <<conn, backend, clock, store, watched, dirty, lastVer>>

\* --------------------------------------------------------- specifications
Ttls == 0..MaxTtl
Matches == {Null} \cup (1..(MaxVersion - 1))
ConcMatches == {Null} \cup (1..(MaxConcVersion - 1))

\* each caller writes a value of its own
ValueOf(c) == IF c = 1 THEN "1" ELSE "NaN"

\* versions stay small: a put begins only while the row and every row read by a
\* call in flight are below max
Below(scope, key, max) ==
    /\ store[PhysKey(backend, scope, key)].version < max
    /\ \A c \in Calls : calls[c].current.version < max

Steps(c) ==
    \/ SqlPutRead(c)
    \/ SqlPutWrite(c)
    \/ SqlDeleteRead(c)
    \/ SqlDeleteWrite(c)
    \/ RedisWatch(c)
    \/ RedisPutRead(c)
    \/ RedisUnwatch(c)
    \/ RedisPutExec(c)
    \/ RedisDeleteRead(c)
    \/ RedisDeleteExec(c)

\* calls made one after another, on a running clock
Next ==
    \/ \E v \in JsValues, ttl \in Ttls, m \in Matches :
          Below(ScopeA, KeyA, MaxVersion) /\ PutBegin(1, ScopeA, KeyA, v, ttl, m)
    \/ \E m \in Matches : DeleteBegin(1, ScopeA, KeyA, m)
    \/ SqlGet(1, ScopeA, KeyA)
    \/ RedisGet(1, ScopeA, KeyA)
    \/ Steps(1)
    \/ RedisGetDel(1)
    \/ (clock < MaxTime /\ Tick)

Spec == Init /\ [][Next]_vars

\* reads of two keys of one scope, on a running clock
ReadKeys == {KeyA, KeyB}
ReadBatches == {<<KeyA, KeyB>>, <<KeyB, KeyB>>}
ReadPrefixes == {<<>>, KeyA}
ReadCursors == {NoCursor, encodeCursor(KeyA)}
Limits == {1, MaxLimit}

ReadNext ==
    \/ \E key \in ReadKeys, ttl \in Ttls :
          Below(ScopeA, key, MaxReadVersion) /\ PutBegin(1, ScopeA, key, "1", ttl, Null)
    \/ SqlPutRead(1)
    \/ SqlPutWrite(1)
    \/ RedisWatch(1)
    \/ RedisPutRead(1)
    \/ RedisPutExec(1)
    \/ \E key \in ReadKeys : SqlGet(1, ScopeA, key)
    \/ \E key \in ReadKeys : RedisGet(1, ScopeA, key)
    \/ RedisGetDel(1)
    \/ \E keys \in ReadBatches : SqlBatchGetBegin(1, ScopeA, keys)
    \/ SqlBatchGetStep(1)
    \/ \E keys \in ReadBatches : RedisBatchGet(1, ScopeA, keys)
    \/ \E prefix \in ReadPrefixes, cursor \in ReadCursors, limit \in Limits :
          SqlList(1, ScopeA, prefix, cursor, limit)
    \/ \E prefix \in ReadPrefixes, cursor \in ReadCursors, limit \in Limits :
          RedisListScan(1, ScopeA, prefix, cursor, limit)
    \/ RedisListFetch(1)
    \/ (clock < MaxTime /\ Tick)

ReadSpec == Init /\ [][ReadNext]_vars

\* batches of reads over three keys, one of them '__proto__', on a running clock
MaxBatchGetVersion == 1
BatchGetKeys == {KeyA, KeyB, KeyProto}
GetBatches == {<<KeyA, KeyB>>, <<KeyB, KeyB>>, <<KeyA, KeyProto>>}

BatchGetNext ==
    \/ \E key \in BatchGetKeys, ttl \in Ttls :
          Below(ScopeA, key, MaxBatchGetVersion) /\ PutBegin(1, ScopeA, key, "1", ttl, Null)
    \/ SqlPutRead(1)
    \/ SqlPutWrite(1)
    \/ RedisWatch(1)
    \/ RedisPutRead(1)
    \/ RedisPutExec(1)
    \/ \E keys \in GetBatches : SqlBatchGetBegin(1, ScopeA, keys)
    \/ SqlBatchGetStep(1)
    \/ \E keys \in GetBatches : RedisBatchGet(1, ScopeA, keys)
    \/ (clock < MaxTime /\ Tick)

BatchGetSpec == Init /\ [][BatchGetNext]_vars

\* batches of writes over two keys, deletes and reads, clock at rest
MaxBatch == 3
MaxBatchVersion == 2
Entry(key, value, ifMatchVersion) ==
    [key |-> key, value |-> value, ttlSeconds |-> 0, ifMatchVersion |-> ifMatchVersion]
BatchEntries == {Entry(KeyA, "1", Null), Entry(KeyB, "1", Null), Entry(KeyB, "NaN", 1)}
PutBatches == UNION {[1..n -> BatchEntries] : n \in 1..MaxBatch}

BatchPutSteps ==
    \/ \E entries \in PutBatches :
          /\ \A key \in ReadKeys : Below(ScopeA, key, MaxBatchVersion)
          /\ BatchPutBegin(1, ScopeA, entries)
    \/ BatchPutNext(1)
    \/ \E key \in ReadKeys : DeleteBegin(1, ScopeA, key, Null)
    \/ SqlPutRead(1)
    \/ SqlPutWrite(1)
    \/ SqlDeleteRead(1)
    \/ SqlDeleteWrite(1)
    \/ RedisWatch(1)
    \/ RedisPutRead(1)
    \/ RedisUnwatch(1)
    \/ RedisPutExec(1)
    \/ RedisDeleteRead(1)
    \/ RedisDeleteExec(1)
    \/ \E key \in ReadKeys : SqlGet(1, ScopeA, key)
    \/ \E key \in ReadKeys : RedisGet(1, ScopeA, key)

BatchPutSpec == Init /\ [][BatchPutSteps]_vars

\* setItem and removeItem of one key with every short If-Match, clock at rest
MaxIfMatchLen == 3
MaxIfMatchVersion == 2
IfMatchChars == {"0", "1", "2", "a", "\"", " ", "-"}
MaxEtagVersion == 12
Etags == {etagFromVersion(v) : v \in 1..MaxEtagVersion}
             \cup {Decimal(v) : v \in 1..MaxEtagVersion}
IfMatches == Etags \cup UNION {[1..n -> IfMatchChars] : n \in 0..MaxIfMatchLen}

IfMatchNext ==
    \/ \E ifMatch \in IfMatches :
          /\ calls[1].pc = "idle" /\ Below(ScopeA, KeyA, MaxIfMatchVersion)
          /\ setItem(1, ScopeA, KeyA, "1", Undefined, ifMatch)
    \/ \E ifMatch \in IfMatches :
          calls[1].pc = "idle" /\ removeItem(1, ScopeA, KeyA, ifMatch)
    \/ Steps(1)
    \/ Release(1)

IfMatchSpec == Init /\ [][IfMatchNext]_vars

\* requests to the item routes with an If-Match, clock at rest
MaxApiVersion == 2
ApiIfMatches == {<<>>, <<"1">>, etagFromVersion(1), <<"a">>, <<"0">>}
BodyEntry(key, ifMatch) ==
    [key |-> key, value |-> "1", ttlSeconds |-> Undefined, ifMatch |-> ifMatch]
BodyEntries == {BodyEntry(key, ifMatch) : key \in ReadKeys, ifMatch \in ApiIfMatches}
Bodies == UNION {[1..n -> BodyEntries] : n \in 1..2}

ApiNext ==
    \/ \E key \in ReadKeys, ifMatch \in ApiIfMatches :
          /\ calls[1].pc = "idle" /\ Below(ScopeA, key, MaxApiVersion)
          /\ RoutePutItem(1, ScopeA, key, "1", ifMatch)
    \/ \E key \in ReadKeys, ifMatch \in ApiIfMatches :
          calls[1].pc = "idle" /\ RouteDeleteItem(1, ScopeA, key, ifMatch)
    \/ \E body \in Bodies :
          /\ calls[1].pc = "idle" /\ \A key \in ReadKeys : Below(ScopeA, key, MaxApiVersion)
          /\ RouteBatchPut(1, ScopeA, body)
    \/ \E body \in Bodies :
          /\ calls[1].pc = "idle" /\ \A key \in ReadKeys : Below(ScopeA, key, MaxApiVersion)
          /\ RouteBatchPutMapped(1, ScopeA, body)
    \/ BatchPutNext(1)
    \/ Steps(1)
    \/ Release(1)

ApiSpec == Init /\ [][ApiNext]_vars

\* every operation that returns items, one key written up to a two-digit
\* version, on a running clock
MaxItemVersion == 10
ItemBatches == {<<Entry(KeyA, "1", Null)>>, <<Entry(KeyB, "1", Null), Entry(KeyA, "NaN", Null)>>}

ItemsNext ==
    \/ \E ttl \in Ttls :
          /\ calls[1].pc = "idle" /\ Below(ScopeA, KeyA, MaxItemVersion)
          /\ PutBegin(1, ScopeA, KeyA, "1", ttl, Null)
    \/ \E entries \in ItemBatches :
          /\ calls[1].pc = "idle"
          /\ Below(ScopeA, KeyA, MaxItemVersion) /\ Below(ScopeA, KeyB, 1)
          /\ BatchPutBegin(1, ScopeA, entries)
    \/ BatchPutNext(1)
    \/ SqlPutRead(1)
    \/ SqlPutWrite(1)
    \/ RedisWatch(1)
    \/ RedisPutRead(1)
    \/ RedisPutExec(1)
    \/ (calls[1].pc = "idle" /\ SqlGet(1, ScopeA, KeyA))
    \/ (calls[1].pc = "idle" /\ RedisGet(1, ScopeA, KeyA))
    \/ RedisGetDel(1)
    \/ (calls[1].pc = "idle" /\ SqlBatchGetBegin(1, ScopeA, <<KeyA, KeyB>>))
    \/ SqlBatchGetStep(1)
    \/ (calls[1].pc = "idle" /\ RedisBatchGet(1, ScopeA, <<KeyA, KeyB>>))
    \/ \E limit \in Limits :
          calls[1].pc = "idle" /\ SqlList(1, ScopeA, <<>>, NoCursor, limit)
    \/ \E limit \in Limits :
          calls[1].pc = "idle" /\ RedisListScan(1, ScopeA, <<>>, NoCursor, limit)
    \/ RedisListFetch(1)
    \/ Release(1)
    \/ (clock < MaxTime /\ Tick)

ItemsSpec == Init /\ [][ItemsNext]_vars

\* calls of the service with arguments that pass and that fail its validation
MaxValidVersion == 1
ScopeNoUser == [tenantId |-> <<"t">>, namespace |-> <<"n">>, userId |-> <<>>]
GivenScopes == {ScopeA, ScopeNoUser}
GivenKeys == {KeyA, <<>>, LongKey}
GivenValues == {"1", BigValue}
GivenTtls == {Undefined, JsNum(1), JsNum(0), JsHalf(1), NaN}
GivenIfMatches == {<<>>, <<"1">>, <<"a">>}
GivenEntry(key, value, ttl, ifMatchVersion) ==
    [key |-> key, value |-> value, ttlSeconds |-> ttl, ifMatchVersion |-> ifMatchVersion]
GivenEntries ==
    {GivenEntry(KeyA, "1", Undefined, Null), GivenEntry(KeyB, "1", Undefined, Null),
     GivenEntry(<<>>, "1", Undefined, Null), GivenEntry(KeyB, BigValue, Undefined, Null),
     GivenEntry(KeyB, "1", JsNum(0), Null), GivenEntry(KeyB, "1", Undefined, 0)}
Oversize(x) == [i \in 1..(maxBatchSize + 1) |-> x]
GivenBatches == {<<>>, Oversize(GivenEntry(KeyA, "1", Undefined, Null))}
                    \cup UNION {[1..n -> GivenEntries] : n \in 1..2}
GivenKeyBatches == {<<>>, Oversize(KeyA), <<KeyA>>, <<KeyA, KeyB>>, <<KeyA, <<>>>>,
                    <<LongKey, KeyA>>}
GivenPrefixes == {<<>>, KeyA, LongKey}

ValidNext ==
    \/ \E scope \in GivenScopes, key \in GivenKeys, value \in GivenValues,
          ttl \in GivenTtls, ifMatch \in GivenIfMatches :
          /\ calls[1].pc = "idle"
          /\ (SetItemError(scope, key, value, ttl, ifMatch) = "none"
                  => Below(ScopeA, KeyA, MaxValidVersion))
          /\ setItem(1, scope, key, value, ttl, ifMatch)
    \/ \E scope \in GivenScopes, key \in GivenKeys, ifMatch \in GivenIfMatches :
          calls[1].pc = "idle" /\ removeItem(1, scope, key, ifMatch)
    \/ \E scope \in GivenScopes, key \in GivenKeys :
          calls[1].pc = "idle" /\ getItem(1, scope, key)
    \/ \E scope \in GivenScopes, keys \in GivenKeyBatches :
          calls[1].pc = "idle" /\ batchGet(1, scope, keys)
    \/ \E scope \in GivenScopes, entries \in GivenBatches :
          /\ calls[1].pc = "idle"
          /\ (BatchPutError(scope, entries) = "none"
                  => \A key \in ReadKeys : Below(ScopeA, key, MaxValidVersion))
          /\ batchPut(1, scope, entries)
    \/ \E scope \in GivenScopes, prefix \in GivenPrefixes :
          calls[1].pc = "idle" /\ list(1, scope, prefix, NoCursor, JsNum(1))
    \/ BatchPutNext(1)
    \/ SqlBatchGetStep(1)
    \/ RedisListFetch(1)
    \/ Steps(1)
    \/ Release(1)

ValidSpec == Init /\ [][ValidNext]_vars

\* list of the service with every kind of limit, over a store of two keys
MaxLimitVersion == 1
GivenLimits == {Undefined, NaN, Infinity, JsNum(0 - 1), JsNum(0), JsHalf(0), JsNum(1),
                JsHalf(1), JsNum(2), JsNum(DefaultLimit), JsNum(maxListLimit),
                JsNum(maxListLimit + 1)}

LimitNext ==
    \/ \E key \in ReadKeys :
          /\ calls[1].pc = "idle" /\ Below(ScopeA, key, MaxLimitVersion)
          /\ setItem(1, ScopeA, key, "1", Undefined, <<>>)
    \/ SqlPutRead(1)
    \/ SqlPutWrite(1)
    \/ RedisWatch(1)
    \/ RedisPutRead(1)
    \/ RedisPutExec(1)
    \/ \E limit \in GivenLimits :
          calls[1].pc = "idle" /\ list(1, ScopeA, <<>>, NoCursor, limit)
    \/ RedisListFetch(1)
    \/ Release(1)

LimitSpec == Init /\ [][LimitNext]_vars

\* a put or delete of one caller, with writes of another client in between
MaxRetryVersion == 2
RetryMatches == {Null} \cup (1..MaxRetryVersion)

RetryNext ==
    \/ \E m \in RetryMatches :
          /\ calls[1].pc = "idle" /\ Below(ScopeA, KeyA, MaxRetryVersion)
          /\ PutBegin(1, ScopeA, KeyA, "1", 0, m)
    \/ \E m \in RetryMatches : calls[1].pc = "idle" /\ DeleteBegin(1, ScopeA, KeyA, m)
    \/ Steps(1)
    \/ Release(1)
    \/ ForeignWrite(PhysKey(backend, ScopeA, KeyA))

RetrySpec == Init /\ [][RetryNext]_vars

\* every command a call awaits is answered
RetryFairSpec == RetrySpec /\ WF_vars(Steps(1))

\* puts and gets of several callers in flight on one adapter, on a running clock
MaxTimedVersion == 2

TimedNext ==
    \/ \E c \in Calls, ttl \in Ttls :
          Below(ScopeA, KeyA, MaxTimedVersion) /\ PutBegin(c, ScopeA, KeyA, "1", ttl, Null)
    \/ \E c \in Calls : SqlPutRead(c)
    \/ \E c \in Calls : SqlPutWrite(c)
    \/ \E c \in Calls : RedisWatch(c)
    \/ \E c \in Calls : RedisPutRead(c)
    \/ \E c \in Calls : RedisPutExec(c)
    \/ \E c \in Calls : SqlGet(c, ScopeA, KeyA)
    \/ \E c \in Calls : RedisGet(c, ScopeA, KeyA)
    \/ \E c \in Calls : RedisGetDel(c)
    \/ (clock < MaxTime /\ Tick)

TimedSpec == Init /\ [][TimedNext]_vars

\* the same calls made on one backend and then on another: a put with a TTL at
\* time 0 and, at time 0 or later, a get or a delete. Slot 2 keeps what the
\* last call returned on the backend of the first run.
EquivMatches == {Null, 1, 2}

PutReturned == calls[1].op = "put" /\ calls[1].pc = "done"

RunAgain(b) ==
    /\ calls[1].op \in {"get", "delete"} /\ calls[1].pc = "done"
    /\ calls[2].pc = "idle"
    /\ b # backend
    /\ backend' = b
    /\ conn' = conn
    /\ clock' = 0
    /\ store' = [pk \in PhysKeys(b) |-> NoRow]
    /\ lastVer' = [pk \in PhysKeys(b) |-> 0]
    /\ watched' = {}
    /\ dirty' = FALSE
    /\ calls' = [calls EXCEPT ![1] = Idle, ![2] = calls[1]]

EquivNext ==
    \/ calls[1].pc = "idle" /\ PutBegin(1, ScopeA, KeyA, "1", 1, Null)
    \/ Steps(1)
    \/ (PutReturned /\ clock < MaxTime /\ Tick)
    \/ \E m \in EquivMatches : PutReturned /\ DeleteBegin(1, ScopeA, KeyA, m)
    \/ (PutReturned /\ SqlGet(1, ScopeA, KeyA))
    \/ (PutReturned /\ RedisGet(1, ScopeA, KeyA))
    \/ \E b \in Backends : RunAgain(b)

EquivSpec == Init /\ [][EquivNext]_vars

\* setItem with keys, values and ttlSeconds at and around the limits
MaxEdgeVersion == 1
EdgeKeys == {KeyA, <<>>, FullKey, LongKey}
EdgeValues == {"1", FullValue, OverValue}
EdgeTtls == {Undefined, JsNum(1), JsNum(0), JsNum(0 - 1), JsHalf(0), JsHalf(1), NaN}

EdgeNext ==
    \/ \E key \in EdgeKeys, value \in EdgeValues, ttl \in EdgeTtls :
          /\ calls[1].pc = "idle"
          /\ (SetItemError(ScopeA, key, value, ttl, <<>>) = "none"
                  => Below(ScopeA, key, MaxEdgeVersion))
          /\ setItem(1, ScopeA, key, value, ttl, <<>>)
    \/ SqlPutRead(1)
    \/ SqlPutWrite(1)
    \/ RedisWatch(1)
    \/ RedisPutRead(1)
    \/ RedisPutExec(1)
    \/ Release(1)

EdgeSpec == Init /\ [][EdgeNext]_vars

\* health and close in every state of the connection; the key-value adapter
\* starts with its connection pending
LifeInit ==
    /\ backend \in Backends
    /\ clock = 0
    /\ store = [pk \in PhysKeys(backend) |-> NoRow]
    /\ calls = [c \in Calls |-> Idle]
    /\ watched = {}
    /\ dirty = FALSE
    /\ lastVer = [pk \in PhysKeys(backend) |-> 0]
    /\ conn = IF backend = "redis" THEN "connecting" ELSE "ready"

LifeNext ==
    \/ Connect
    \/ ConnectFails
    \/ BackendFails
    \/ BackendRecovers
    \/ \E c \in Calls : health(c)
    \/ \E c \in Calls : Close(c)
    \/ \E c \in Calls : Release(c)

LifeSpec == LifeInit /\ [][LifeNext]_vars

\* requests with and without the token of the configuration
MaxAuthVersion == 1
AuthHeaders ==
    {<<>>, authToken, BearerWord \o <<" ">> \o authToken,
     <<"b", "e", "a", "r", "e", "r", " ">> \o authToken,
     BearerWord \o <<" ", " ">> \o authToken, BearerWord \o authToken,
     BearerWord \o <<" ", "x">>, <<"B", "a", "s", "i", "c", " ">> \o authToken,
     BearerWord \o <<" ">> \o authToken \o <<" ">>}

AuthNext ==
    \/ \E path \in {PathHealthz, PathReadyz, PathItem}, header \in AuthHeaders :
          ActorMiddleware(1, path, header)
    \/ Healthz(1)
    \/ Readyz(1)
    \/ (Below(ScopeA, KeyA, MaxAuthVersion) /\ ItemHandler(1))
    \/ SqlPutRead(1)
    \/ SqlPutWrite(1)
    \/ RedisWatch(1)
    \/ RedisPutRead(1)
    \/ RedisPutExec(1)
    \/ Release(1)

AuthSpec == Init /\ [][AuthNext]_vars

\* requests that fail in every way, answered by either build of the handler
ErrorNext ==
    \/ \E c \in Calls, kind \in ErrorKinds, handler \in Handlers : OnError(c, kind, handler)
    \/ \E c \in Calls : Release(c)

ErrorSpec == Init /\ [][ErrorNext]_vars

\* calls under several scopes, one after another, clock at rest; every scope
\* writes a value of its own
IsoKeys == {KeyB, KeyAKB}
IsoBatches == {<<KeyB, KeyAKB>>}
IsoValue(scope) == IF scope = ScopeA THEN "1" ELSE IF scope = ScopeB THEN "2" ELSE "3"

IsoNext ==
    \/ \E scope \in AllScopes, key \in IsoKeys :
          Below(scope, key, MaxIsoVersion)
             /\ PutBegin(1, scope, key, IsoValue(scope), 0, Null)
    \/ SqlPutRead(1)
    \/ SqlPutWrite(1)
    \/ RedisWatch(1)
    \/ RedisPutRead(1)
    \/ RedisPutExec(1)
    \/ \E scope \in AllScopes, key \in IsoKeys : SqlGet(1, scope, key)
    \/ \E scope \in AllScopes, key \in IsoKeys : RedisGet(1, scope, key)
    \/ \E scope \in AllScopes, keys \in IsoBatches : SqlBatchGetBegin(1, scope, keys)
    \/ SqlBatchGetStep(1)
    \/ \E scope \in AllScopes, keys \in IsoBatches : RedisBatchGet(1, scope, keys)
    \/ \E scope \in AllScopes : SqlList(1, scope, <<>>, NoCursor, MaxLimit)
    \/ \E scope \in AllScopes : RedisListScan(1, scope, <<>>, NoCursor, MaxLimit)
    \/ RedisListFetch(1)

IsoSpec == Init /\ [][IsoNext]_vars

\* lists paged over a store at rest: a list begins without a cursor or with the
\* nextCursor of the list before it
ListKeys == {KeyA, KeyB, KeyUpperB}
ListPrefixes == {<<>>, KeyA}
PatternPrefixes == {KeyB, <<"_">>, <<"?">>}

ListWrites ==
    \/ \E key \in ListKeys :
          Below(ScopeA, key, MaxListVersion) /\ PutBegin(1, ScopeA, key, "1", 0, Null)
    \/ SqlPutRead(1)
    \/ SqlPutWrite(1)
    \/ RedisWatch(1)
    \/ RedisPutRead(1)
    \/ RedisPutExec(1)

PagedLists(prefixes) ==
    \/ \E prefix \in prefixes, limit \in Limits :
          SqlList(1, ScopeA, prefix, NoCursor, limit)
    \/ (calls[1].nextCursor # NoCursor
          /\ SqlList(1, ScopeA, calls[1].prefix, calls[1].nextCursor, calls[1].limit))
    \/ \E prefix \in prefixes, limit \in Limits :
          RedisListScan(1, ScopeA, prefix, NoCursor, limit)
    \/ (calls[1].nextCursor # NoCursor
          /\ RedisListScan(1, ScopeA, calls[1].prefix, calls[1].nextCursor, calls[1].limit))
    \/ RedisListFetch(1)

ListNext == ListWrites \/ PagedLists(ListPrefixes)

ListSpec == Init /\ [][ListNext]_vars

\* the same with prefixes that hold pattern characters or differ from a key in case
PrefixNext == ListWrites \/ PagedLists(PatternPrefixes)

PrefixSpec == Init /\ [][PrefixNext]_vars

\* calls of several callers in flight on one adapter instance, clock at rest
ConcNext ==
    \/ \E c \in Calls, m \in ConcMatches :
          Below(ScopeA, KeyA, MaxConcVersion) /\ PutBegin(c, ScopeA, KeyA, ValueOf(c), 0, m)
    \/ \E c \in Calls, m \in ConcMatches : DeleteBegin(c, ScopeA, KeyA, m)
    \/ \E c \in Calls : SqlGet(c, ScopeA, KeyA)
    \/ \E c \in Calls : RedisGet(c, ScopeA, KeyA)
    \/ \E c \in Calls : Steps(c)

ConcSpec == Init /\ [][ConcNext]_vars

\* ------------------------------------------------------------- properties
\* an item is active iff expiresAt is null or later than now
IsActive(row, t) == row # NoRow /\ (row.expiresAt = Null \/ row.expiresAt > t)

ActiveVersion(row, t) == IF IsActive(row, t) THEN row.version ELSE 0

\* the JavaScript value a JSON round trip of a value yields
JsonRoundTrip(value) == IF value = "NaN" THEN "null" ELSE value

\* call c returns from a successful put in this step
PutReturns(c) ==
    /\ calls[c].op = "put" /\ calls[c].pc \in {"write", "exec"}
    /\ calls'[c].pc = "done" /\ calls'[c].outcome = "ok"

\* C1: on every backend the write of a put is atomic with its precondition
\* check: the version a put returns is one more than the active version the
\* key holds at the moment of the write (1 when it holds none), so that two
\* overlapping puts act as if run one after the other.
C1_PutAtomic ==
    [][\A c \in Calls :
          PutReturns(c) =>
             calls'[c].item.version = ActiveVersion(store[PkOf(c)], clock) + 1]_vars

\* C2: successive successful puts to one key, with no delete and no expiry in
\* between, return 1, 2, 3, ...: a put to a key without a row returns 1, and a
\* put returns one more than the last put returned.
C2_VersionSequence ==
    [][\A c \in Calls :
          PutReturns(c) =>
             /\ (lastVer[PkOf(c)] > 0 => calls'[c].item.version = lastVer[PkOf(c)] + 1)
             /\ (store[PkOf(c)] = NoRow /\ calls[c].prior = 0
                    => calls'[c].item.version = 1)]_vars

C2_Witness ==
    \E c \in Calls : /\ calls[c].op = "put" /\ calls[c].pc = "done"
                     /\ calls[c].outcome = "ok" /\ calls[c].item.version = 3
                     /\ lastVer[PkOf(c)] = 3

\* C3: a put with ifMatchVersion = v on a key whose active version is not v
\* (no row, expired row, other version) raises a precondition failure, and no
\* step of a put that raises one changes the store.
C3_MismatchLeavesStore ==
    [][\A c \in Calls :
          /\ (/\ calls[c].op = "put" /\ calls[c].pc = "read" /\ calls'[c].pc # "read"
              /\ calls[c].ifMatchVersion # Null
              /\ ActiveVersion(store[PkOf(c)], clock) # calls[c].ifMatchVersion)
                => (calls'[c].outcome = "precondition" /\ store' = store)
          /\ (/\ calls'[c].op = "put" /\ calls'[c].outcome = "precondition"
              /\ calls'[c] # calls[c])
                => store' = store]_vars

C3_Witness ==
    \E c \in Calls : /\ calls[c].op = "put" /\ calls[c].pc = "done"
                     /\ calls[c].outcome = "precondition"
                     /\ calls[c].priorExpired
                     /\ store[PkOf(c)] # NoRow

\* C4: once a put has returned version v, and no delete or expiry of the item
\* has happened since, every get observes the key at a version of at least v.
C4_ReadsSeeReturnedVersion ==
    \A c \in Calls :
        (calls[c].op = "get" /\ calls[c].pc = "done" /\ calls[c].floor > 0)
            => calls[c].item.version >= calls[c].floor

\* C5: on the key-value adapter the commit of a put or delete succeeds only if
\* the record it read has not been modified since that read.
C5_CommitOnlyIfUnmodified ==
    [][\A c \in Calls :
          (/\ backend = "redis"
           /\ calls[c].op \in {"put", "delete"} /\ calls[c].pc = "exec"
           /\ calls'[c].pc = "done" /\ calls'[c].outcome = "ok")
             => store[PkOf(c)] = calls[c].current]_vars

\* C7: a get of a key whose item was written with a TTL that has run out
\* returns null, and the first put to the key after the expiry returns version 1.
C7_ExpiredThenFresh ==
    [][\A c \in Calls :
          /\ (/\ calls'[c].op = "get" /\ calls'[c] # calls[c] /\ calls[c].pc # "del"
              /\ store[PkOf(c)']  # NoRow
              /\ ~IsActive(store[PkOf(c)'], clock))
                => calls'[c].item = NoItem
          /\ (PutReturns(c) /\ calls[c].priorExpired)
                => calls'[c].item.version = 1]_vars

C7_Witness ==
    \E c \in Calls : /\ calls[c].op = "put" /\ calls[c].pc = "done"
                     /\ calls[c].outcome = "ok" /\ calls[c].priorExpired
                     /\ calls[c].item.version = 1

\* C8: a put that finds the prior row expired returns version 1 and createdAt
\* equal to the time of that put, and the stored item carries that createdAt.
C8_FreshInsertAfterExpiry ==
    \A c \in Calls :
        (/\ calls[c].op = "put" /\ calls[c].pc = "done" /\ calls[c].outcome = "ok"
         /\ calls[c].priorExpired)
           => /\ calls[c].item.version = 1
              /\ calls[c].item.createdAt = calls[c].now
              /\ (store[PkOf(c)] # NoRow => store[PkOf(c)].createdAt = calls[c].now)

\* the call in the slot is a returned put without ifMatch on an active item
PutOnActiveReturned(c) ==
    /\ calls[c].op = "put" /\ calls[c].pc = "done" /\ calls[c].outcome = "ok"
    /\ calls[c].ifMatchVersion = Null /\ calls[c].prior > 0

\* the next call of the slot is a get of the same key, evaluated in this step
GetFollows(c) ==
    /\ calls'[c].op = "get" /\ calls'[c].key = calls[c].key
    /\ calls'[c].scope = calls[c].scope

\* C10 as stated: after a put without ifMatch on an active item at version p,
\* the next get returns the value written (after a JSON round trip) and p + 1.
C10_AsStated ==
    [][\A c \in Calls :
          (PutOnActiveReturned(c) /\ GetFollows(c))
             => /\ calls'[c].item.version = calls[c].prior + 1
                /\ calls'[c].item.value = JsonRoundTrip(calls[c].value)]_vars

\* C10 amended: the same, provided the item written has no TTL or its
\* expiresAt is later than the time of the get.
C10_NextGetSeesPut ==
    [][\A c \in Calls :
          (/\ PutOnActiveReturned(c) /\ GetFollows(c)
           /\ (calls[c].item.expiresAt = Null \/ calls[c].item.expiresAt > clock))
             => /\ calls'[c].item.version = calls[c].prior + 1
                /\ calls'[c].item.value = JsonRoundTrip(calls[c].value)]_vars

C10_Witness ==
    \E c \in Calls : /\ calls[c].op = "get" /\ calls[c].pc = "done"
                     /\ calls[c].item.version = 2 /\ calls[c].item.value = "null"
                     /\ calls[c].item.updatedAt > calls[c].item.createdAt

\* the items a call holds as its result
ItemsOf(call) == ({call.item} \cup {call.items[i] : i \in 1..Len(call.items)}) \ {NoItem}

\* the items a step of a read has just taken from the store
NewItems(c) ==
    IF calls'[c] = calls[c] \/ calls'[c].op \notin {"get", "batchGet", "list"} THEN {}
    ELSE IF Free(c) THEN ItemsOf(calls'[c])
    ELSE ItemsOf(calls'[c]) \ ItemsOf(calls[c])

\* C6: an item written under one scope is never returned by a get, batchGet
\* or list made under another scope
C6_ScopeIsolation ==
    \A c \in Calls :
        (calls[c].op \in {"get", "batchGet", "list"} /\ calls[c].pc = "done")
            => \A item \in ItemsOf(calls[c]) :
                  item.value = JsonRoundTrip(IsoValue(calls[c].scope))

\* C9: every item a get, batchGet or list takes from the store is active at
\* the moment it is taken: its expiresAt is null or later than that moment
C9_ReadsReturnActive ==
    [][\A c \in Calls :
          \A item \in NewItems(c) : item.expiresAt = Null \/ item.expiresAt > clock]_vars

C9_Witness ==
    \E c \in Calls :
        /\ calls[c].op = "list" /\ calls[c].pc = "done"
        /\ Len(calls[c].items) = 1
        /\ calls[c].items[1].expiresAt # Null
        /\ \E pk \in DOMAIN store :
              store[pk] # NoRow /\ store[pk].expiresAt # Null /\ store[pk].expiresAt <= calls[c].now

\* call c returns (true or false) from a delete in this step
DeleteReturns(c) ==
    /\ calls[c].op = "delete" /\ calls[c].pc # "done"
    /\ calls'[c].pc = "done" /\ calls'[c].outcome = "ok"

\* the call in the slot is a delete that returned true
DeleteReturnedTrue(c) ==
    /\ calls[c].op = "delete" /\ calls[c].pc = "done" /\ calls[c].outcome = "ok"
    /\ calls[c].removed

\* C11: a delete returns true iff, at the step it returns, an active item of the
\* key exists and that step removes it; the get that follows a delete that
\* returned true returns null.
C11_DeleteReturnsRemoved ==
    [][\A c \in Calls :
          /\ DeleteReturns(c) =>
                (calls'[c].removed <=> (/\ IsActive(store[PkOf(c)], clock)
                                        /\ store'[PkOf(c)] = NoRow))
          /\ (DeleteReturnedTrue(c) /\ GetFollows(c)) => calls'[c].item = NoItem]_vars

\* C12: a delete of a key whose row exists but is expired returns false and
\* raises nothing, with or without an ifMatchVersion.
C12_ExpiredDeleteReturnsFalse ==
    \A c \in Calls :
        (calls[c].op = "delete" /\ calls[c].pc = "done" /\ calls[c].priorExpired)
            => (calls[c].outcome = "ok" /\ ~calls[c].removed)

\* C13: a delete with ifMatchVersion = v on a key whose active item has another
\* version raises a precondition failure, and no step of a delete that raises
\* one changes the store.
C13_DeleteMismatchLeavesItem ==
    [][\A c \in Calls :
          /\ (/\ calls[c].op = "delete" /\ calls[c].pc = "read" /\ calls'[c].pc # "read"
              /\ calls[c].ifMatchVersion # Null
              /\ IsActive(store[PkOf(c)], clock)
              /\ store[PkOf(c)].version # calls[c].ifMatchVersion)
                => (calls'[c].outcome = "precondition" /\ store' = store)
          /\ (/\ calls'[c].op = "delete" /\ calls'[c].outcome = "precondition"
              /\ calls'[c] # calls[c])
                => store' = store]_vars

C13_Witness ==
    \E c \in Calls :
        /\ calls[c].op = "delete" /\ calls[c].pc = "done"
        /\ calls[c].outcome = "precondition" /\ calls[c].prior > 0
        /\ IsActive(store[PkOf(c)], clock) /\ store[PkOf(c)].version = calls[c].prior

\* C14: the put that follows a delete of the key that returned (with no other
\* write of the key in between) returns version 1 and createdAt equal to the
\* time of that put, and the stored item carries that createdAt.
C14_PutAfterDeleteIsFresh ==
    \A c \in Calls :
        (/\ calls[c].op = "put" /\ calls[c].pc = "done" /\ calls[c].outcome = "ok"
         /\ calls[c].afterDelete)
           => /\ calls[c].item.version = 1
              /\ calls[c].item.createdAt = calls[c].now
              /\ (store[PkOf(c)] # NoRow => store[PkOf(c)].createdAt = calls[c].now)

C14_Witness ==
    \E c \in Calls :
        /\ calls[c].op = "put" /\ calls[c].pc = "done" /\ calls[c].outcome = "ok"
        /\ calls[c].afterDelete /\ calls[c].item.version = 1 /\ calls[c].now > 0
        /\ store[PkOf(c)] # NoRow

StartsWith(str, prefix) ==
    Len(prefix) <= Len(str) /\ SubSeq(str, 1, Len(prefix)) = prefix

\* the active keys of a scope that start with the prefix, taken literally
ActiveKeys(scope, prefix) ==
    {k \in AllKeys : /\ IsActive(store[PhysKey(backend, scope, k)], clock)
                     /\ StartsWith(k, prefix)}

\* call c is a list that has returned
ListReturned(c) == calls[c].op = "list" /\ calls[c].pc = "done" /\ calls[c].outcome = "ok"

\* C15: paging a store at rest from a list without cursor through the
\* nextCursors returns no key twice, makes progress on every page that hands
\* out a nextCursor, and has returned exactly the active keys of the scope that
\* start with the prefix when nextCursor is null.
C15_PagingVisitsEachKeyOnce ==
    \A c \in Calls :
        (ListReturned(c) /\ (calls[c].cursor = NoCursor \/ calls[c].visited # <<>>))
            => LET all == calls[c].visited \o KeysOf(calls[c].items)
               IN /\ \A i, j \in 1..Len(all) : i # j => all[i] # all[j]
                  /\ (calls[c].nextCursor # NoCursor => Len(calls[c].items) > 0)
                  /\ (calls[c].nextCursor = NoCursor
                        => {all[i] : i \in 1..Len(all)}
                              = ActiveKeys(calls[c].scope, calls[c].prefix))

\* C16: the keys of one list page are in strictly ascending byte order
C16_PageInByteOrder ==
    \A c \in Calls :
        ListReturned(c)
            => \A i, j \in 1..Len(calls[c].items) :
                  i < j => StrLess(calls[c].items[i].key, calls[c].items[j].key)

\* C17: nextCursor is non-null iff an active key of the scope that starts with
\* the prefix is greater than the last key of the page; it decodes to that last
\* key; a list called with a cursor returns only keys greater than its key.
C17_NextCursorIffMore ==
    \A c \in Calls :
        ListReturned(c)
            => LET keys == KeysOf(calls[c].items)
               IN /\ (keys = <<>> => calls[c].nextCursor = NoCursor)
                  /\ (keys # <<>> =>
                        /\ (calls[c].nextCursor # NoCursor
                              <=> \E k \in ActiveKeys(calls[c].scope, calls[c].prefix) :
                                     StrLess(keys[Len(keys)], k))
                        /\ (calls[c].nextCursor # NoCursor
                              => decodeCursor(calls[c].nextCursor) = keys[Len(keys)]))
                  /\ (calls[c].cursor # NoCursor
                        => \A i \in 1..Len(keys) :
                              StrLess(decodeCursor(calls[c].cursor), keys[i]))

\* C18: a list with prefix p and no cursor returns only active keys that start
\* with p taken literally, all of them when they are at most limit, and limit
\* of them otherwise.
C18_PrefixTakenLiterally ==
    \A c \in Calls :
        (ListReturned(c) /\ calls[c].cursor = NoCursor)
            => LET keys == KeysOf(calls[c].items)
                   matching == ActiveKeys(calls[c].scope, calls[c].prefix)
               IN /\ \A i \in 1..Len(keys) : keys[i] \in matching
                  /\ (Cardinality(matching) <= calls[c].limit
                        => {keys[i] : i \in 1..Len(keys)} = matching)
                  /\ (Cardinality(matching) > calls[c].limit
                        => Len(keys) = calls[c].limit)
\* the keys occurring in a batch, and the last position of a key in it
KeySet(keys) == {keys[i] : i \in 1..Len(keys)}

LastIndexOf(keys, key) ==
    CHOOSE i \in 1..Len(keys) : keys[i] = key /\ \A j \in (i + 1)..Len(keys) : keys[j] # key

\* what the claim has a batchGet hold for a key: the active item of the key at
\* the moment it is read, null when the key is absent or expired
ActiveItem(scope, key) ==
    LET row == store[PhysKey(backend, scope, key)]
    IN IF IsActive(row, clock) THEN toStoredItem(key, row) ELSE NoItem

\* C19: every item a batchGet reads for a key of K is the active item of the
\* key, or null when the key is absent or expired, and the mapping it returns
\* has exactly the keys occurring in K, each mapped to the item read for it
C19_BatchGetMapsEveryKey ==
    [][\A c \in Calls :
          (calls'[c] # calls[c] /\ calls'[c].op = "batchGet")
              => /\ \A i \in 1..Len(calls'[c].items) :
                        i > (IF Free(c) THEN 0 ELSE Len(calls[c].items))
                            => calls'[c].items[i]
                                  = ActiveItem(calls'[c].scope, calls'[c].keys[i])
                 /\ calls'[c].pc = "done"
                        => /\ DOMAIN calls'[c].result = KeySet(calls'[c].keys)
                           /\ \A key \in DOMAIN calls'[c].result :
                                 calls'[c].result[key]
                                    = calls'[c].items[LastIndexOf(calls'[c].keys, key)]]_vars

\* a batchPut in slot c: in flight, or returned or raised
InBatchPut(c) == calls[c].op = "put" /\ calls[c].index > 0

BatchPutEnded(c) == InBatchPut(c) /\ calls[c].pc = "done"

\* the entry of a batchPut that wrote a key last, among those that have written
LastApplied(call, key) ==
    CHOOSE j \in 1..Len(call.applied) :
        /\ call.entries[j].key = key
        /\ \A i \in (j + 1)..Len(call.applied) : call.entries[i].key # key

AppliedKeys(call) == {call.entries[j].key : j \in 1..Len(call.applied)}

\* the entries are put in declaration order, one at a time
BatchPutInOrder(c) ==
    /\ calls[c].index <= Len(calls[c].entries)
    /\ calls[c].key = calls[c].entries[calls[c].index].key
    /\ calls[c].value = calls[c].entries[calls[c].index].value
    /\ calls[c].ifMatchVersion = calls[c].entries[calls[c].index].ifMatchVersion
    /\ \A j \in 1..Len(calls[c].applied) : calls[c].applied[j] = j
    /\ Len(calls[c].applied) \in {calls[c].index - 1, calls[c].index}

\* it returns after the last entry, or raises the error of entry index with
\* exactly the entries before it applied
BatchPutEnds(c) ==
    IF calls[c].outcome = "ok"
    THEN Len(calls[c].applied) = Len(calls[c].entries)
    ELSE calls[c].outcome = "precondition" /\ Len(calls[c].applied) = calls[c].index - 1

\* what the applied entries wrote is in the store
BatchPutCommitted(c) ==
    \A key \in AppliedKeys(calls[c]) :
        LET row == store[PhysKey(backend, calls[c].scope, key)]
        IN /\ IsActive(row, clock)
           /\ row.valueJson = serializeJson(calls[c].entries[LastApplied(calls[c], key)].value)

\* a get that follows the batchPut reads what its applied entries wrote
GetFollowsBatchPut(c) ==
    /\ BatchPutEnded(c)
    /\ calls'[c].op = "get" /\ calls'[c].pc = "done"
    /\ calls'[c].key \in AppliedKeys(calls[c])

\* C20: batchPut puts its entries one at a time in declaration order; when the
\* put of entry i raises, batchPut raises that error with exactly the entries
\* before i applied, their writes stay in the store and are what a later get
\* returns, and no entry after i is applied
C20_BatchPutStopsAtFirstError ==
    /\ [](\A c \in Calls :
             InBatchPut(c) => /\ BatchPutInOrder(c)
                              /\ BatchPutCommitted(c)
                              /\ BatchPutEnded(c) => BatchPutEnds(c))
    /\ [][\A c \in Calls :
             GetFollowsBatchPut(c)
                 => /\ calls'[c].item # NoItem
                    /\ calls'[c].item.value
                          = JsonRoundTrip(calls[c].entries[LastApplied(calls[c],
                                                                       calls'[c].key)].value)]_vars

\* the second of three entries raised: the first is in the store, the third is not
C20_Witness ==
    \E c \in Calls :
        /\ BatchPutEnded(c) /\ calls[c].outcome = "precondition"
        /\ Len(calls[c].entries) = 3 /\ calls[c].index = 2
        /\ store[PhysKey(backend, calls[c].scope, calls[c].entries[1].key)] # NoRow
        /\ store[PhysKey(backend, calls[c].scope, calls[c].entries[3].key)] = NoRow

\* a run of decimal digits that denotes a positive integer
IsPositiveNumeral(str) ==
    /\ str # <<>>
    /\ \A i \in 1..Len(str) : IsDigit(str[i])
    /\ \E i \in 1..Len(str) : str[i] # "0"

\* the If-Match of a call is present and, trimmed and without one pair of
\* surrounding double quotes, is not the numeral of a positive integer
IfMatchMalformed(call) ==
    /\ call.ifMatch # <<>>
    /\ ~IsPositiveNumeral(WithoutQuotes(Trim(call.ifMatch)))

\* C22: a setItem or removeItem whose ifMatch is present but malformed raises a
\* precondition failure without calling the adapter; one without ifMatch runs
\* without precondition
C22_MalformedIfMatchRejected ==
    \A c \in Calls :
        /\ (calls[c].op \in {"setItem", "removeItem", "put", "delete"}
               /\ IfMatchMalformed(calls[c]))
              => (/\ calls[c].op \in {"setItem", "removeItem"}
                  /\ calls[c].outcome = "precondition")
        /\ (calls[c].op \in {"put", "delete"} /\ calls[c].ifMatch = <<>>)
              => calls[c].ifMatchVersion = Null

\* call c ends a put in this step
PutEnds(c) == calls[c].op = "put" /\ calls[c].pc # "done" /\ calls'[c].pc = "done"

\* the etag of version v, quoted or bare
EtagForms(v) == {etagFromVersion(v), Decimal(v)}

WriteIfMatch(call) ==
    IF call.index > 0 THEN call.entries[call.index].ifMatch ELSE call.ifMatch

\* C21: a write that came with a non-empty If-Match runs at the adapter under a
\* version precondition, and is answered neither as not found nor as written
\* without precondition
C21_IfMatchNeverDropped ==
    \A c \in Calls :
        (calls[c].op \in {"put", "delete"} /\ WriteIfMatch(calls[c]) # <<>>)
            => /\ calls[c].ifMatchVersion # Null
               /\ calls[c].pc = "done" => Status(calls[c]) # 404

\* every item a call holds: its item, its items and the values of its mapping
AllItemsOf(call) ==
    (ItemsOf(call) \cup {call.result[key] : key \in DOMAIN call.result}) \ {NoItem}

\* the etag is the version in decimal, without a leading zero, between double quotes
EtagQuotesVersion(item) ==
    LET inner == SubSeq(item.etag, 2, Len(item.etag) - 1)
    IN /\ Len(item.etag) >= 3
       /\ Head(item.etag) = "\"" /\ item.etag[Len(item.etag)] = "\""
       /\ \A i \in 1..Len(inner) : IsDigit(inner[i])
       /\ inner[1] # "0"
       /\ DigitsValue(inner) = item.version

\* C24: every item a put, get, batchGet, batchPut or list returns has a version
\* of at least 1 and an etag that is that version in decimal between double quotes
C24_EtagIsQuotedVersion ==
    \A c \in Calls :
        \A item \in AllItemsOf(calls[c]) :
            item.version >= 1 /\ EtagQuotesVersion(item)

\* a list has returned an item at a two-digit version
C24_Witness ==
    \E c \in Calls :
        /\ calls[c].op = "list" /\ calls[c].pc = "done"
        /\ Len(calls[c].items) >= 1
        /\ calls[c].items[1].version = 10
        /\ calls[c].items[1].etag = <<"\"", "1", "0", "\"">>

\* the defects the validation of the service looks for
ScopeDefect(scope) == scope.tenantId = <<>> \/ scope.namespace = <<>> \/ scope.userId = <<>>
KeyDefect(key) == key = <<>> \/ Len(key) > maxKeyLength
ValueDefect(value) == ByteLength(value) > maxValueBytes
TtlDefect(ttl) == ttl # Undefined /\ ~(ttl.kind = "number" /\ "half" \notin DOMAIN ttl /\ ttl.n >= 1)
IfMatchDefect(ifMatch) == ifMatch # <<>> /\ normalizeIfMatch(ifMatch) = Null
EntryDefect(entry) ==
    \/ KeyDefect(entry.key) \/ ValueDefect(entry.value) \/ TtlDefect(entry.ttlSeconds)
    \/ (entry.ifMatchVersion # Null /\ IfMatchDefect(Decimal(entry.ifMatchVersion)))
SizeDefect(batch) == batch = <<>> \/ Len(batch) > maxBatchSize

\* the arguments the call of the service in the slot came with fail validation
Defect(call) ==
    \/ ScopeDefect(call.scope)
    \/ call.op \in {"setItem", "removeItem", "getItem", "get", "delete"} /\ KeyDefect(call.key)
    \/ call.op = "put" /\ call.index = 0 /\ KeyDefect(call.key)
    \/ call.op \in {"setItem", "put"} /\ call.index = 0
           /\ (ValueDefect(call.value) \/ TtlDefect(call.ttl))
    \/ call.op \in {"setItem", "removeItem", "put", "delete"} /\ IfMatchDefect(call.ifMatch)
    \/ call.op = "batchGet"
           /\ (SizeDefect(call.keys) \/ \E i \in 1..Len(call.keys) : KeyDefect(call.keys[i]))
    \/ (call.op = "batchPut" \/ (call.op = "put" /\ call.index > 0))
           /\ (SizeDefect(call.given) \/ \E i \in 1..Len(call.given) : EntryDefect(call.given[i]))
    \/ call.op = "list" /\ Len(call.prefix) > maxKeyLength

\* the slot of a call that ended before any adapter method was entered
EndedInService(call) ==
    /\ call.pc = "done"
    /\ call.op \in {"setItem", "removeItem", "getItem", "batchGet", "batchPut", "list"}
    /\ call.outcome \in {"validation", "precondition"}
    /\ call.now = Null /\ call.item = NoItem /\ call.items = <<>> /\ call.result = <<>>
    /\ call.index = 0 /\ call.applied = <<>>

\* C25: a getItem, setItem, removeItem, batchGet, batchPut or list whose
\* arguments fail validation (a scope component missing, a key empty or too
\* long, a value too large, a ttlSeconds that is not a positive integer, an
\* If-Match that does not parse, an empty or oversize batch, a prefix too
\* long, or one invalid entry at any position of a batch) ends with an error
\* in the step it begins, without entering the adapter, and that step leaves
\* the store unchanged; a call that is in the adapter came with none of them.
C25_ValidatesBeforeDelegating ==
    [][\A c \in Calls :
          (calls[c].pc = "idle" /\ calls'[c] # calls[c])
              => IF Defect(calls'[c])
                 THEN /\ EndedInService(calls'[c])
                      /\ store' = store /\ watched' = watched /\ dirty' = dirty
                      /\ lastVer' = lastVer
                 ELSE ~EndedInService(calls'[c])]_vars

\* over a stored item, a batchPut whose first entry is valid and whose second
\* entry is not has been rejected
C25_Witness ==
    /\ store[PhysKey(backend, ScopeA, KeyA)] # NoRow
    /\ EndedInService(calls[1])
    /\ calls[1].op = "batchPut"
    /\ Len(calls[1].given) = 2
    /\ ~EntryDefect(calls[1].given[1])
    /\ EntryDefect(calls[1].given[2])

\* the limit a list of the service came with is a number at most 0
AtMostZero(raw) == raw.kind = "number" /\ "half" \notin DOMAIN raw /\ raw.n <= 0
\* ... a number above the largest limit
AboveMax(raw) ==
    raw.kind = "number" /\ (raw.n > maxListLimit \/ (raw.n = maxListLimit /\ "half" \in DOMAIN raw))

\* C30: the limit a list of the service hands to the adapter lies in
\* 1..maxListLimit: a limit of 0 or below becomes 1, a limit above
\* maxListLimit becomes maxListLimit, and an absent or non-finite limit
\* becomes 50.
C30_LimitClamped ==
    \A c \in Calls :
        (calls[c].op = "list" /\ calls[c].outcome # "validation" /\ calls[c].pc # "idle")
            => /\ calls[c].limit \in 1..maxListLimit
               /\ AtMostZero(calls[c].rawLimit) => calls[c].limit = 1
               /\ AboveMax(calls[c].rawLimit) => calls[c].limit = maxListLimit
               /\ calls[c].rawLimit.kind # "number" => calls[c].limit = 50

\* call c is inside put or delete
InWrite(c) == calls[c].op \in {"put", "delete"} /\ calls[c].pc \notin {"idle", "done"}

\* the step is an EXEC of call c that the server aborted
Conflict(c) ==
    backend = "redis" /\ InWrite(c) /\ calls[c].pc = "exec" /\ dirty /\ calls'[c] # calls[c]

\* C26: put and delete of the key-value adapter always terminate. A call makes
\* at most five watch-read-commit attempts and makes a further attempt only
\* after a commit that a conflict aborted; after the fifth conflict it raises
\* a precondition failure and has written nothing; an ifMatch mismatch is
\* raised on the attempt that observes it, without a retry; a put or delete of
\* the other adapters never makes a second attempt.
C26_RetriesBounded ==
    /\ [](\A c \in Calls :
            /\ calls[c].attempt \in 0..(MaxAttempts - 1)
            /\ backend # "redis" => calls[c].attempt = 0)
    /\ [][\A c \in Calls :
            /\ (InWrite(c) /\ calls[c].pc # "watch" /\ calls'[c].pc = "watch")
                   => Conflict(c) /\ calls'[c].attempt = calls[c].attempt + 1
            /\ (InWrite(c) /\ calls'[c].attempt # calls[c].attempt /\ calls'[c].pc # "done")
                   => Conflict(c) /\ calls'[c].pc = "watch"
            /\ (Conflict(c) /\ calls[c].attempt = MaxAttempts - 1)
                   => /\ calls'[c].pc = "done" /\ calls'[c].outcome = "precondition"
                      /\ store' = store
            /\ Conflict(c) => store' = store
            /\ (InWrite(c) /\ calls[c].pc = "read" /\ calls'[c].outcome = "precondition")
                   => calls'[c].pc \in {"unwatch", "done"}
            /\ (InWrite(c) /\ calls[c].pc = "unwatch" /\ calls'[c] # calls[c])
                   => calls'[c].pc = "done" /\ store' = store]_vars
    /\ \A c \in Calls : InWrite(c) ~> (calls[c].pc = "done")

\* a put without ifMatch has raised the precondition failure: its five attempts
\* were all aborted
C26_Witness ==
    /\ backend = "redis"
    /\ calls[1].op = "put" /\ calls[1].pc = "done"
    /\ calls[1].ifMatchVersion = Null /\ calls[1].outcome = "precondition"

\* call c, a put without ttlSeconds that read an active item with an expiry,
\* returns in this step
PutClearsTtl(c) ==
    /\ PutReturns(c)
    /\ calls[c].ttlSeconds = 0
    /\ calls[c].current # NoRow /\ calls[c].current.expiresAt # Null
    /\ ~isExpired(calls[c].current.expiresAt, calls[c].readAt)

\* C29: a put without ttlSeconds on an active item that was written with a
\* TTL clears the expiry: the item returned and the item stored have
\* expiresAt null and the createdAt of the item replaced; an item stored
\* without expiry is never dropped as time passes and every get of its key
\* returns it.
C29_PutWithoutTtlClearsExpiry ==
    /\ [][\A c \in Calls :
            /\ PutClearsTtl(c)
                   => /\ calls'[c].item.expiresAt = Null
                      /\ calls'[c].item.createdAt = calls[c].current.createdAt
                      /\ calls'[c].item.version = calls[c].current.version + 1
                      /\ store'[PkOf(c)].expiresAt = Null
                      /\ store'[PkOf(c)].dropAt = Null
                      /\ store'[PkOf(c)].createdAt = calls[c].current.createdAt
            /\ (/\ Free(c) /\ calls'[c] # calls[c] /\ calls'[c].op = "get"
                 /\ store[PhysKey(backend, calls'[c].scope, calls'[c].key)] # NoRow
                 /\ store[PhysKey(backend, calls'[c].scope, calls'[c].key)].expiresAt = Null)
                   => /\ calls'[c].pc = "done"
                      /\ calls'[c].item =
                             toStoredItem(calls'[c].key,
                                 store[PhysKey(backend, calls'[c].scope, calls'[c].key)])]_vars
    /\ [][\A pk \in DOMAIN store :
            (clock' # clock /\ store[pk] # NoRow /\ store[pk].expiresAt = Null)
                => store'[pk] = store[pk]]_vars
    /\ [](\A pk \in DOMAIN store :
            (store[pk] # NoRow /\ store[pk].expiresAt = Null) => store[pk].dropAt = Null)

\* past the expiry the item was first written with, the put that cleared it
\* has returned and the item is still stored
C29_Witness ==
    /\ calls[1].op = "put" /\ calls[1].pc = "done" /\ calls[1].outcome = "ok"
    /\ calls[1].ttlSeconds = 0 /\ calls[1].prior = 1
    /\ calls[1].priorExpiresAt # Null /\ calls[1].priorExpiresAt <= clock
    /\ calls[1].item.expiresAt = Null
    /\ store[PkOf(1)] # NoRow /\ store[PkOf(1)].version = 2

\* the timestamps of a row or an item are in order
TimestampsInOrder(x) ==
    /\ x.createdAt <= x.updatedAt
    /\ x.expiresAt # Null => x.expiresAt > x.createdAt

\* C28: in every reachable state, puts of several callers in flight included,
\* every stored item and every item a call returned has createdAt <= updatedAt
\* and, when expiresAt is not null, expiresAt > createdAt.
C28_TimestampsInOrder ==
    /\ \A pk \in DOMAIN store : store[pk] # NoRow => TimestampsInOrder(store[pk])
    /\ \A c \in Calls : calls[c].item # NoItem => TimestampsInOrder(calls[c].item)

\* the two slots hold the same call, made at the same time, returned
SameCall(a, b) ==
    /\ a.pc = "done" /\ b.pc = "done"
    /\ a.op = b.op /\ a.op \in {"get", "delete"}
    /\ a.scope = b.scope /\ a.key = b.key
    /\ a.ifMatchVersion = b.ifMatchVersion /\ a.now = b.now

\* C27: the backends are observably identical: the same calls made one after
\* another at the same times return the same on the SQL adapters and on the
\* key-value adapter, the same items, the same booleans and the same errors.
C27_BackendsAgree ==
    SameCall(calls[1], calls[2])
        => /\ calls[1].outcome = calls[2].outcome
           /\ calls[1].item = calls[2].item
           /\ calls[1].removed = calls[2].removed

\* the arguments of a setItem are among those the service turns away
KeyOutOfRange(key) == Len(key) = 0 \/ Len(key) >= maxKeyLength + 1
ValueOutOfRange(value) == ByteLength(value) >= maxValueBytes + 1
TtlOutOfRange(ttl) ==
    ttl # Undefined /\ (ttl.kind # "number" \/ "half" \in DOMAIN ttl \/ ttl.n <= 0)

\* slot c holds a setItem that began in this step
SetItemBegins(c) ==
    /\ calls[c].pc = "idle" /\ calls'[c] # calls[c]
    /\ calls'[c].op \in {"setItem", "put"} /\ calls'[c].index = 0

\* C31: with a scope of three non-empty components and no ifMatch, setItem
\* raises a ValidationError exactly when the key is empty or longer than
\* maxKeyLength, or the value serializes to more than maxValueBytes bytes, or
\* ttlSeconds is present and is not a positive integer; otherwise the call is
\* handed to the adapter, whose put writes the key and the value given.
C31_SetItemLimits ==
    [][\A c \in Calls :
          /\ SetItemBegins(c)
                 => /\ (calls'[c].op = "setItem" /\ calls'[c].outcome = "validation")
                           <=> (\/ KeyOutOfRange(calls'[c].key)
                                \/ ValueOutOfRange(calls'[c].value)
                                \/ TtlOutOfRange(calls'[c].ttl))
                    /\ calls'[c].op = "setItem" => calls'[c].pc = "done" /\ store' = store
                    /\ calls'[c].op = "put" => calls'[c].pc \in {"read", "watch"}
          /\ PutReturns(c)
                 => /\ store'[PkOf(c)] # NoRow
                    /\ store'[PkOf(c)].valueJson = serializeJson(calls[c].value)
                    /\ calls'[c].item.key = calls[c].key
                    /\ calls'[c].item.value = calls[c].value]_vars

\* a setItem with a key of exactly maxKeyLength characters, a value of exactly
\* maxValueBytes bytes and ttlSeconds = 1 has returned and the item is stored
C31_Witness ==
    /\ calls[1].op = "put" /\ calls[1].pc = "done" /\ calls[1].outcome = "ok"
    /\ calls[1].key = FullKey /\ Len(calls[1].key) = maxKeyLength
    /\ calls[1].value = FullValue /\ ByteLength(calls[1].value) = maxValueBytes
    /\ calls[1].ttl = JsNum(1)
    /\ store[PkOf(1)] # NoRow /\ store[PkOf(1)].valueJson = FullValue

\* call c returns from health in this step
HealthReturns(c) == calls'[c] # calls[c] /\ calls'[c].op = "health"

\* C32: health never raises, on any adapter and through the service, whatever
\* the state of the connection (ready, failing, closed): it returns ok = false
\* with details when the round trip to the backend fails, and ok = true only
\* when the round trip succeeded.
C32_HealthNeverRaises ==
    [][\A c \in Calls :
          HealthReturns(c)
              => /\ calls'[c].pc = "done" /\ calls'[c].outcome = "ok"
                 /\ calls'[c].result.ok <=> conn = "ready"
                 /\ ~calls'[c].result.ok
                        => /\ "details" \in DOMAIN calls'[c].result
                           /\ calls'[c].result.details # ""
                 /\ ReadyzStatus(calls'[c]) = IF conn = "ready" THEN 200 ELSE 503
                 /\ UNCHANGED <<conn, store>>]_vars

\* a health on a closed adapter has returned ok = false with details
C32_Witness ==
    /\ conn = "closed"
    /\ calls[1].op = "health" /\ calls[1].pc = "done" /\ calls[1].outcome = "ok"
    /\ calls[1].result = [ok |-> FALSE, details |-> "Error: closed"]

\* C33: close is idempotent on every adapter: a close on an adapter that is
\* closed already returns without raising and changes nothing.
C33_CloseIdempotent ==
    [][\A c \in Calls :
          (calls'[c] # calls[c] /\ calls'[c].op = "close" /\ conn = "closed")
              => /\ calls'[c].outcome = "ok"
                 /\ UNCHANGED <<conn, store, watched, dirty>>]_vars

\* the header is 'Bearer ', then the token of the configuration
ExactBearer(header) == header = <<"B", "e", "a", "r", "e", "r", " ">> \o authToken

\* C34: with an auth token configured, a request to a /v1 route other than
\* /v1/healthz and /v1/readyz reaches the storage service only if its
\* Authorization header is exactly 'Bearer ' followed by the token; every
\* other request is answered as unauthorized and runs no storage operation.
C34_OnlyBearerTokenPasses ==
    [][\A c \in Calls :
          (calls[c].pc = "idle" /\ calls'[c].op = "request" /\ calls'[c].path = PathItem)
              => IF ExactBearer(calls'[c].auth)
                 THEN calls'[c].pc = "route"
                 ELSE /\ calls'[c].pc = "done" /\ calls'[c].outcome = "unauthorized"
                      /\ store' = store]_vars

\* the response to a failed request carries this status and this code
Answered(call, status, code) == call.result.status = status /\ call.result.code = code

\* C35: every failure is reported to the HTTP client with the code and the
\* status of its kind: validation as VALIDATION_ERROR / 400, unauthorized as
\* UNAUTHORIZED / 401, not found as NOT_FOUND / 404, precondition failure as
\* PRECONDITION_FAILED / 412, and every error that is not one of the kinds of
\* the core as INTERNAL_ERROR / 500 with a message that carries none of the
\* diagnostic of the backend.
C35_FailuresReportedByKind ==
    \A c \in Calls :
        (calls[c].op = "request" /\ calls[c].pc = "done" /\ calls[c].outcome \in ErrorKinds)
            => CASE calls[c].outcome = "validation" ->
                      Answered(calls[c], 400, "VALIDATION_ERROR")
                 [] calls[c].outcome = "unauthorized" ->
                      Answered(calls[c], 401, "UNAUTHORIZED")
                 [] calls[c].outcome = "notFound" -> Answered(calls[c], 404, "NOT_FOUND")
                 [] calls[c].outcome = "precondition" ->
                      Answered(calls[c], 412, "PRECONDITION_FAILED")
                 [] OTHER -> /\ Answered(calls[c], 500, "INTERNAL_ERROR")
                             /\ calls[c].result.message # Diagnostic

\* the step is one of a get, batchGet or list in slot c
ReadStep(c) ==
    /\ calls'[c] # calls[c]
    /\ (calls[c].op \in {"get", "batchGet", "list"} /\ calls[c].pc \notin {"idle", "done"})
          \/ (Free(c) /\ calls'[c].op \in {"get", "batchGet", "list"})

\* C36: reads never disturb live data: no step of a get, batchGet or list
\* removes or changes an active item, also when a put to the same key is in
\* flight; the delete-on-read of the key-value adapter never deletes a record
\* that a put committed after the read.
C36_ReadsLeaveActiveItems ==
    [][\A c \in Calls :
          ReadStep(c)
              => \A pk \in DOMAIN store :
                    IsActive(store[pk], clock) => store'[pk] = store[pk]]_vars

\* ---------------------------------------------------------------------
\* Deletes overlapping puts on the SQL adapters: two callers, puts with and
\* without a time to live, deletes with and without ifMatchVersion, time.
MaxRaceVersion == 2

RaceMatches == {Null} \cup (1..(MaxRaceVersion - 1))

RaceInit == Init /\ backend \in SqlBackends

RaceNext ==
    \/ \E c \in Calls, ttl \in Ttls :
          Below(ScopeA, KeyA, MaxRaceVersion) /\ PutBegin(c, ScopeA, KeyA, "1", ttl, Null)
    \/ \E c \in Calls, m \in RaceMatches : DeleteBegin(c, ScopeA, KeyA, m)
    \/ \E c \in Calls : SqlPutRead(c)
    \/ \E c \in Calls : SqlPutWrite(c)
    \/ \E c \in Calls : SqlDeleteRead(c)
    \/ \E c \in Calls : SqlDeleteWrite(c)
    \/ (clock < MaxTime /\ Tick)

RaceSpec == RaceInit /\ [][RaceNext]_vars

\* the step is the DELETE statement of slot c's delete and it removes a row
SqlDeleteRemoves(c) ==
    /\ backend \in SqlBackends
    /\ calls[c].op = "delete" /\ calls[c].pc = "write" /\ calls'[c].pc = "done"
    /\ store[PkOf(c)] # NoRow /\ store'[PkOf(c)] = NoRow

\* C37: on the SQL adapters a delete removes only the row state it examined,
\* also when a put overlaps it: a delete with ifMatchVersion = v never removes
\* an item whose version at the moment of removal is not v, and a delete that
\* returns false (the row it read was expired) never removes an active item.
C37_DeleteRemovesExaminedRow ==
    [][\A c \in Calls :
          SqlDeleteRemoves(c)
              => /\ calls[c].ifMatchVersion # Null
                      => store[PkOf(c)].version = calls[c].ifMatchVersion
                 /\ ~calls'[c].removed => ~IsActive(store[PkOf(c)], clock)]_vars
\* ---------------------------------------------------------------------
\* Writes under several scopes, one after another, clock at rest: puts,
\* deletes and batches over keys with and without ':k:'.
MaxFrameVersion == 1

FrameBatches == {<<Entry(KeyB, "1", Null), Entry(KeyAKB, "1", Null)>>}

FrameNext ==
    \/ \E scope \in AllScopes, key \in IsoKeys :
          Below(scope, key, MaxFrameVersion)
             /\ PutBegin(1, scope, key, IsoValue(scope), 0, Null)
    \/ \E scope \in AllScopes, key \in IsoKeys : DeleteBegin(1, scope, key, Null)
    \/ \E scope \in AllScopes, entries \in FrameBatches :
          /\ \A key \in IsoKeys : Below(scope, key, MaxFrameVersion)
          /\ BatchPutBegin(1, scope, entries)
    \/ BatchPutNext(1)
    \/ Steps(1)

FrameSpec == Init /\ [][FrameNext]_vars

\* the step is a write to the store by the put, delete or batch entry of slot c
WriteStep(c) ==
    /\ store' # store
    /\ calls[c].op \in {"put", "delete"} /\ calls[c].pc \notin {"idle", "done"}
    /\ calls'[c] # calls[c]

\* C38: a put, delete or batchPut under scope S on key k changes only the item
\* of (S, k): the item of every other scope or key keeps its value, version,
\* timestamps and existence, on every backend, also for components and keys
\* that hold ':' or ':k:'.
C38_WritesChangeOnlyTheirItem ==
    [][\A c \in Calls :
          WriteStep(c)
              => \A scope \in AllScopes, key \in AllKeys :
                    (scope # calls[c].scope \/ key # calls[c].key)
                        => store'[PhysKey(backend, scope, key)]
                              = store[PhysKey(backend, scope, key)]]_vars
\* ---------------------------------------------------------------------
\* the number of entries of a batch that name the key
Occurrences(entries, key) ==
    Cardinality({i \in 1..Len(entries) : entries[i].key = key})

LastOccurrence(entries, key) ==
    CHOOSE j \in 1..Len(entries) :
        /\ entries[j].key = key
        /\ \A i \in (j + 1)..Len(entries) : entries[i].key # key

\* the step is the return or the raise of the put of the entry slot c is at
EntryReturns(c) ==
    /\ InBatchPut(c) /\ calls[c].pc \notin {"next", "done"}
    /\ calls'[c].op = "put" /\ calls'[c].index = calls[c].index
    /\ calls'[c].pc \in {"next", "done"}

\* a batchPut that returned holds for every key the item of its last
\* occurrence, which is the row of the key, after all occurrences in order
BatchPutReturnsLast(c) ==
    /\ \A j \in 1..Len(calls[c].entries) :
          j <= Len(calls[c].applied) /\ calls[c].applied[j] = j
    /\ \A j \in 1..Len(calls[c].entries) :
          LET key == calls[c].entries[j].key
              last == calls[c].entries[LastOccurrence(calls[c].entries, key)]
          IN key # KeyProto
                => /\ key \in DOMAIN calls[c].result
                   /\ calls[c].result[key].version
                         = store[PhysKey(backend, calls[c].scope, key)].version
                   /\ calls[c].result[key].version >= Occurrences(calls[c].entries, key)
                   /\ serializeJson(calls[c].result[key].value) = serializeJson(last.value)
                   /\ store[PhysKey(backend, calls[c].scope, key)].valueJson
                         = serializeJson(last.value)

====
